---------------------------- MODULE Spec2Model ----------------------------
(***************************************************************************)
(* Model of pyG5View.py: the pyG5Widget base class (generated setters,     *)
(* drefHandler, derive_settings, getNavTypeString) and the paintEvent of   *)
(* its two subclasses, pyG5HSIWidget and pyG5AIWidget.                     *)
(*                                                                         *)
(* Numbers.  The widget's attributes are Python numbers.  Every numeric    *)
(* attribute value is modelled as an integer count of hundredths, so 0.12  *)
(* is 12, 29.92 is 2992 and 270 is 27000.  Num(n) is the whole number n.   *)
(* int() and round(x, 1) are modelled by what they do on such values.      *)
(***************************************************************************)
EXTENDS Integers, Sequences, FiniteSets, TLC

VARIABLES
    widget,     \* class of the widget instance: "HSI" or "AI"
    fs,         \* the stored parameters: attribute "_p" for each property p
    added,      \* other instance attributes written by setattr: <<name, value>>
    nav,        \* the derived attributes (cdi_source, nav_color, ...); a
                \* function whose domain is the set of attributes that exist
    canvas,     \* drawing primitives issued by the most recent paint pass
    qpActive,   \* a QPainter has been begun and not yet ended
    handler,    \* the handler that ran last: "", "derive_settings",
                \* "paintEvent", "setter" or "drefHandler"
    painted,    \* FlightState seen by each paint pass of the last handler run
    logged,     \* error records logged by the last handler run
    raised,     \* exception that left the last handler run, "" when none
    qpEnds,     \* calls of qp.end() made by the most recent paint pass
    pass        \* for each thread, its position in a paint pass and the
                \* FlightState it has read at each step of that pass

vars ==
    <<widget, fs, added, nav, canvas, qpActive, handler, painted, logged,
      raised, qpEnds, pass>>

Num(n) == n * 100

Abs(x) == IF x < 0 THEN -x ELSE x

(***************************************************************************)
(* Python's int(x) on a number: truncation toward zero.                    *)
(***************************************************************************)
int(x) == IF x >= 0 THEN x \div 100 ELSE -((-x) \div 100)

(***************************************************************************)
(* Python's round(x, 1) on a float.  The result is the tenth nearest to    *)
(* the exact value of the double.  A value with a 5 in the hundredths      *)
(* place is a tie only in decimal: its double lies just above or just      *)
(* below (or, for 0.25 and 0.75, exactly on) the midpoint.  TiesAway lists *)
(* the magnitudes below 2.00 for which round() moves away from zero        *)
(* (round(0.05, 1) = 0.1, round(0.15, 1) = 0.1, round(0.25, 1) = 0.2).     *)
(***************************************************************************)
TiesAway == {5, 45, 55, 65, 75, 105, 135, 155, 175, 185}

round1(x) ==
    LET m  == Abs(x)
        q  == m \div 10
        r  == m % 10
        up == r > 5 \/ (r = 5 /\ m \in TiesAway)
        t  == 10 * (IF up THEN q + 1 ELSE q)
    IN  IF x < 0 THEN -t ELSE t

(***************************************************************************)
(* propertyList: property name and default value                           *)
(***************************************************************************)
propertyList == <<
    <<"gpsdmedist", 0>>, <<"gpshsisens", 0>>, <<"nav1type", 0>>,
    <<"nav2type", 0>>, <<"gpstype", 0>>, <<"avionicson", 0>>,
    <<"hsiSource", 0>>, <<"nav1fromto", 0>>, <<"nav2fromto", 0>>,
    <<"gpsfromto", 0>>, <<"nav1crs", 0>>, <<"nav1gsavailable", 0>>,
    <<"nav1gs", 0>>, <<"nav2crs", 0>>, <<"gpscrs", 0>>,
    <<"nav2gsavailable", 0>>, <<"nav2gs", 0>>, <<"nav1dft", 0>>,
    <<"nav2dft", 0>>, <<"gpsdft", 0>>, <<"gpsgsavailable", 0>>,
    <<"gpsvnavavailable", 0>>, <<"gpsgs", 0>>, <<"groundTrack", 0>>,
    <<"magHeading", 0>>, <<"windDirection", 0>>, <<"windSpeed", 0>>,
    <<"rollAngle", 0>>, <<"pitchAngle", 0>>, <<"gs", 0>>, <<"kias", 0>>,
    <<"kiasDelta", 0>>, <<"ktas", 0>>, <<"altitude", 0>>,
    <<"alt_setting", 2992>>, <<"vh_ind_fpm", 0>>, <<"turnRate", 0>>,
    <<"slip", 0>>, <<"headingBug", 0>>, <<"vs", 3000>>, <<"vs0", 2300>>,
    <<"vfe", 8800>>, <<"vno", 11800>>, <<"vne", 12700>> >>

Props == {propertyList[i][1] : i \in 1..Len(propertyList)}

Default(p) ==
    LET i == CHOOSE j \in 1..Len(propertyList) : propertyList[j][1] = p
    IN  propertyList[i][2]

(***************************************************************************)
(* A function with one more (or one overwritten) attribute: setattr on the *)
(* derived attributes.                                                     *)
(***************************************************************************)
SetAttr(n, k, v) == [x \in (DOMAIN n) \cup {k} |-> IF x = k THEN v ELSE n[x]]

NoAttrs == [x \in {} |-> 0]

(***************************************************************************)
(* "{}".format(v) of a getNavTypeString result: the string itself, or      *)
(* "None" when the function fell off its end.                              *)
(***************************************************************************)
format(r) == IF r.isNone THEN "None" ELSE r.str

\* getNavTypeString with `value > 4` in place of `value >= 4`.
getNavTypeString_gt4(navType, navIndex) ==
    LET value == int(navType)
    IN  IF value = 0 THEN [isNone |-> FALSE, str |-> "", errors |-> 0]
        ELSE IF value = 3
             THEN [isNone |-> FALSE, str |-> "VOR" \o navIndex, errors |-> 0]
        ELSE IF value > 4
             THEN [isNone |-> FALSE, str |-> "LOC" \o navIndex, errors |-> 0]
        ELSE [isNone |-> TRUE, str |-> "", errors |-> 1]

(***************************************************************************)
(* getNavTypeString(navType, navIndex).  The result carries the returned   *)
(* string (isNone when nothing is returned) and the number of records the  *)
(* call sent to logging.error.                                             *)
(***************************************************************************)
getNavTypeString(navType, navIndex) ==
    LET value == int(navType)
    IN  IF value = 0 THEN [isNone |-> FALSE, str |-> "", errors |-> 0]
        ELSE IF value = 3
             THEN [isNone |-> FALSE, str |-> "VOR" \o navIndex, errors |-> 0]
        ELSE IF value >= 4
             THEN [isNone |-> FALSE, str |-> "LOC" \o navIndex, errors |-> 0]
        ELSE [isNone |-> TRUE, str |-> "", errors |-> 1]

\* The annunciator with `sensi < 0.1` in place of `sensi <= 0.1`.
annunciator_lt(gpshsisens) ==
    LET sensi == round1(gpshsisens)
    IN  IF sensi < 10 THEN "LNAV"
        ELSE IF sensi = 12 THEN "DEPT"
        ELSE IF sensi = 40 THEN "TERM"
        ELSE IF sensi = 80 THEN "ENR"
        ELSE ""

(***************************************************************************)
(* The annunciator of the GPS branch of derive_settings, starting from     *)
(* the "" assigned on entry.                                               *)
(***************************************************************************)
annunciator(gpshsisens) ==
    LET sensi == round1(gpshsisens)
    IN  IF sensi <= 10 THEN "LNAV"
        ELSE IF sensi = 12 THEN "DEPT"
        ELSE IF sensi = 40 THEN "TERM"
        ELSE IF sensi = 80 THEN "ENR"
        ELSE ""

\* The GPS branch with gs_available taken from gpsgsavailable alone.
gpsBranch_flagOnly(f, n) ==
    LET a1 == SetAttr(n, "cdi_source", "GPS")
        a2 == SetAttr(a1, "gps_cdi_annunciator", annunciator(f["gpshsisens"]))
        a3 == SetAttr(a2, "nav_color", "magenta")
        a4 == SetAttr(a3, "nav_dft", f["gpsdft"])
        a5 == SetAttr(a4, "nav_from_to", f["gpsfromto"])
        a6 == SetAttr(a5, "nav_crs", f["gpscrs"])
        a7 == SetAttr(a6, "gs_available", f["gpsgsavailable"])
        a8 == SetAttr(a7, "gs_dev", f["gpsgs"])
    IN  [nav |-> a8, errors |-> 0]

\* The nav2 branch with the course copied from nav1.
nav2Branch_nav1crs(f, n) ==
    LET t  == getNavTypeString(f["nav2type"], "2")
        b1 == SetAttr(n, "cdi_source", format(t))
        b2 == SetAttr(b1, "nav_dft", f["nav2dft"])
        b3 == SetAttr(b2, "nav_from_to", f["nav2fromto"])
        b4 == SetAttr(b3, "nav_crs", f["nav1crs"])
        b5 == SetAttr(b4, "gs_available", f["nav2gsavailable"])
        b6 == SetAttr(b5, "gs_dev", f["nav2gs"])
    IN  [nav |-> b6, errors |-> t.errors]

\* The nav1 branch without the assignment of gs_dev.
nav1Branch_noGsDev(f, n) ==
    LET t  == getNavTypeString(f["nav1type"], "1")
        c1 == SetAttr(n, "cdi_source", format(t))
        c2 == SetAttr(c1, "nav_dft", f["nav1dft"])
        c3 == SetAttr(c2, "nav_from_to", f["nav1fromto"])
        c4 == SetAttr(c3, "nav_crs", f["nav1crs"])
        c5 == SetAttr(c4, "gs_available", f["nav1gsavailable"])
    IN  [nav |-> c5, errors |-> t.errors]

(***************************************************************************)
(* The three branches of derive_settings, each on stored parameters f and  *)
(* the derived attributes n left by the two assignments on entry.  The     *)
(* result carries the attributes and the number of records logged.         *)
(* Python's True is the number 1; `a or b` is True when a holds and the    *)
(* value of b otherwise.                                                   *)
(***************************************************************************)
gpsBranch(f, n) ==
    LET a1 == SetAttr(n, "cdi_source", "GPS")
        a2 == SetAttr(a1, "gps_cdi_annunciator", annunciator(f["gpshsisens"]))
        a3 == SetAttr(a2, "nav_color", "magenta")
        a4 == SetAttr(a3, "nav_dft", f["gpsdft"])
        a5 == SetAttr(a4, "nav_from_to", f["gpsfromto"])
        a6 == SetAttr(a5, "nav_crs", f["gpscrs"])
        a7 == SetAttr(a6, "gs_available",
                      IF f["gpsvnavavailable"] # Num(-1000)
                      THEN Num(1) ELSE f["gpsgsavailable"])
        a8 == SetAttr(a7, "gs_dev", f["gpsgs"])
    IN  [nav |-> a8, errors |-> 0]

nav2Branch(f, n) ==
    LET t  == getNavTypeString(f["nav2type"], "2")
        b1 == SetAttr(n, "cdi_source", format(t))
        b2 == SetAttr(b1, "nav_dft", f["nav2dft"])
        b3 == SetAttr(b2, "nav_from_to", f["nav2fromto"])
        b4 == SetAttr(b3, "nav_crs", f["nav2crs"])
        b5 == SetAttr(b4, "gs_available", f["nav2gsavailable"])
        b6 == SetAttr(b5, "gs_dev", f["nav2gs"])
    IN  [nav |-> b6, errors |-> t.errors]

nav1Branch(f, n) ==
    LET t  == getNavTypeString(f["nav1type"], "1")
        c1 == SetAttr(n, "cdi_source", format(t))
        c2 == SetAttr(c1, "nav_dft", f["nav1dft"])
        c3 == SetAttr(c2, "nav_from_to", f["nav1fromto"])
        c4 == SetAttr(c3, "nav_crs", f["nav1crs"])
        c5 == SetAttr(c4, "gs_available", f["nav1gsavailable"])
        c6 == SetAttr(c5, "gs_dev", f["nav1gs"])
    IN  [nav |-> c6, errors |-> t.errors]

\* derive_settings without the two assignments on entry.
derive_settings_noReset(f, n) ==
    IF int(f["hsiSource"]) = 2 THEN gpsBranch(f, n)
    ELSE IF int(f["hsiSource"]) = 1 THEN nav2Branch(f, n)
    ELSE nav1Branch(f, n)

(***************************************************************************)
(* derive_settings on stored parameters f and existing derived attributes  *)
(* n.                                                                      *)
(***************************************************************************)
derive_settings(f, n) ==
    LET n1 == SetAttr(n, "nav_color", "green")
        n2 == SetAttr(n1, "gps_cdi_annunciator", "")
    IN  IF int(f["hsiSource"]) = 2 THEN gpsBranch(f, n2)
        ELSE IF int(f["hsiSource"]) = 1 THEN nav2Branch(f, n2)
        ELSE nav1Branch(f, n2)

(***************************************************************************)
(* Canvas constants                                                        *)
(***************************************************************************)
G5_WIDTH == 480

G5_HEIGHT == 360

G5_CENTER_X == G5_WIDTH \div 2

G5_CENTER_Y == G5_HEIGHT \div 2

HSI_CENTER == 190

(***************************************************************************)
(* Lengths.  The coordinates paintEvent computes from flight values are    *)
(* floats.  A length is modelled as an integer count of 1/8000 pixel,      *)
(* which makes every scale the code applies to a value in hundredths an    *)
(* integer: 75/2 (CDI bar), 192/2/2.5 and 172/2/2.5 (glideslope), 62/32    *)
(* (turn rate), 2*180/50 (speed tape).  Px(n) is n whole pixels.  The      *)
(* result is the exact value of the expression; the rounding error of the  *)
(* double (201.60000000000002 for 201.6) is not modelled.                  *)
(***************************************************************************)
Px(n) == n * 8000

(***************************************************************************)
(* The world transform of the QPainter, as the sequence of translations    *)
(* and rotations composed so far.  translate and rotate append to it the   *)
(* way QPainter composes: a rotation joins a rotation that precedes it     *)
(* (angles add, modulo 360 degrees, and a rotation by 0 disappears), a     *)
(* translation joins a translation that precedes it.  Two equal sequences  *)
(* are the same transform; the empty sequence is the identity, which is    *)
(* what resetTransform leaves.  Angles are in hundredths of a degree,      *)
(* offsets are lengths.                                                    *)
(***************************************************************************)
XfOp(k, a, x, y) == [k |-> k, a |-> a, x |-> x, y |-> y]

Identity == << >>

Front(xf) == SubSeq(xf, 1, Len(xf) - 1)

rotate(xf, a) ==
    IF Len(xf) > 0 /\ xf[Len(xf)].k = "rotate"
    THEN LET sum == (xf[Len(xf)].a + a) % 36000
         IN  IF sum = 0 THEN Front(xf)
             ELSE Append(Front(xf), XfOp("rotate", sum, 0, 0))
    ELSE IF a % 36000 = 0 THEN xf
         ELSE Append(xf, XfOp("rotate", a % 36000, 0, 0))

translate(xf, x, y) ==
    IF Len(xf) > 0 /\ xf[Len(xf)].k = "translate"
    THEN LET sx == xf[Len(xf)].x + x
             sy == xf[Len(xf)].y + y
         IN  IF sx = 0 /\ sy = 0 THEN Front(xf)
             ELSE Append(Front(xf), XfOp("translate", 0, sx, sy))
    ELSE IF x = 0 /\ y = 0 THEN xf
         ELSE Append(xf, XfOp("translate", 0, x, y))

\* The rotation a transform applies: the sum of its rotations, modulo 360.
RECURSIVE rotation(_)
rotation(xf) ==
    IF Len(xf) = 0 THEN 0
    ELSE (rotation(Front(xf)) + xf[Len(xf)].a) % 36000

(***************************************************************************)
(* A drawing primitive issued on the QPainter.  part names the place of    *)
(* the call in paintEvent.  pen is the pen colour in force; brush is the   *)
(* brush in force for the primitives that fill (rectangle, polygon,        *)
(* ellipse) and "" for lines, arcs and text.  txt is the string of a       *)
(* drawText.  xf is the world transform in force.  geom holds coordinates  *)
(* of the primitive: those of the primitives drawn before the powered-off  *)
(* test, in whole pixels, and the coordinates computed from flight values  *)
(* (see Shape below), as lengths.                                          *)
(***************************************************************************)
Draw(op, part, pen, brush, geom, txt) ==
    [op |-> op, part |-> part, pen |-> pen, brush |-> brush,
     geom |-> geom, txt |-> txt, xf |-> Identity]

\* The primitive d issued while the transform xf is in force.
Under(xf, d) == [d EXCEPT !.xf = xf]

\* The primitive d with the computed coordinates g.
Shape(d, g) == [d EXCEPT !.geom = g]

\* Every primitive of ops issued while the transform xf is in force.
AllUnder(xf, ops) == [i \in 1..Len(ops) |-> Under(xf, ops[i])]

Line(part, pen) == Draw("drawLine", part, pen, "", << >>, "")

Arc(part, pen) == Draw("drawArc", part, pen, "", << >>, "")

Text(part, pen, txt) == Draw("drawText", part, pen, "", << >>, txt)

Rect(part, pen, brush) == Draw("drawRect", part, pen, brush, << >>, "")

Polygon(part, pen, brush) == Draw("drawPolygon", part, pen, brush, << >>, "")

Ellipse(part, pen, brush) == Draw("drawEllipse", part, pen, brush, << >>, "")

(***************************************************************************)
(* "{:0wd}".format(n) and "{:wd}".format(n) for a whole number n: the      *)
(* digits, padded on the left to width w (the sign counts, and zero        *)
(* padding goes after it).                                                 *)
(***************************************************************************)
RECURSIVE Repeat(_, _)
Repeat(c, k) == IF k <= 0 THEN "" ELSE c \o Repeat(c, k - 1)

ZeroPad(n, w) ==
    LET digits == ToString(Abs(n))
        sign   == IF n < 0 THEN "-" ELSE ""
    IN  sign \o Repeat("0", w - Len(digits) - Len(sign)) \o digits

SpacePad(n, w) == Repeat(" ", w - Len(ToString(n))) \o ToString(n)

(***************************************************************************)
(* "{}".format(x) of a float x that has one decimal (t is x in hundredths, *)
(* a multiple of 10): "0.4", "-12.3".                                      *)
(***************************************************************************)
repr1(t) ==
    (IF t < 0 THEN "-" ELSE "")
    \o ToString(Abs(t) \div 100) \o "." \o ToString((Abs(t) % 100) \div 10)

(***************************************************************************)
(* int(a / b) for b > 0: the quotient truncated toward zero.               *)
(***************************************************************************)
TruncDiv(a, b) == IF a >= 0 THEN a \div b ELSE -((-a) \div b)

(***************************************************************************)
(* The off screen both renderers draw when _avionicson == 0: a black       *)
(* rectangle over the canvas and the two diagonals in white.               *)
(***************************************************************************)
Background ==
    Draw("drawRect", "background", "black", "black",
         <<0, 0, G5_WIDTH, G5_HEIGHT>>, "")

OffCross ==
    << Draw("drawLine", "off", "white", "", <<0, 0, G5_WIDTH, G5_HEIGHT>>, ""),
       Draw("drawLine", "off", "white", "", <<0, G5_HEIGHT, G5_WIDTH, 0>>, "") >>

(***************************************************************************)
(* draw_glideslope(gsWidth, gsHeigth, gsFromLeft, frame_color, center) on  *)
(* stored parameters f and derived attributes n, entered with the          *)
(* transform xf in force: the primitives it issues and the transform it    *)
(* leaves.  Nothing happens unless gs_available is truthy.  The diamond is *)
(* drawn after a translate to (left, center + gs_dev / 2.5 * gsHeigth / 2) *)
(* and the routine ends with resetTransform.                               *)
(*   geom of the ladder and of the source box is <<x, y, w, h>>, of the    *)
(* centre line <<x1, y1, x2, y2>>, of a circle <<cx, cy, rx, ry>>.         *)
(***************************************************************************)
gsOffsets == <<-70, -35, 35, 70>>

\* draw_glideslope with the diamond scaled by the height of the HSI ladder.
draw_glideslope_fixedHeight(f, n, xf, gsWidth, gsHeigth, gsFromLeft, frame_color, center) ==
    IF n["gs_available"] # 0 THEN
        LET gsCircleRad == gsWidth - 6
            left == G5_WIDTH - gsFromLeft - gsWidth
            top  == Px(center) - Px(gsHeigth) \div 2
            vert_source_txt ==
                IF int(f["hsiSource"]) = 2 /\ f["gpsgsavailable"] = 0
                THEN "V" ELSE "G"
            moved == translate(xf, Px(left),
                               Px(center) + n["gs_dev"] * 192 * 16)
        IN  [ops |->
                AllUnder(xf,
                    << Text("gs_source", n["nav_color"], vert_source_txt),
                       Shape(Rect("gs_source_box", frame_color, "transparent"),
                             <<Px(left), top - Px(15), Px(gsWidth), Px(15)>>),
                       Shape(Rect("gs_ladder", frame_color, "transparent"),
                             <<Px(left), top, Px(gsWidth), Px(gsHeigth)>>),
                       Shape(Line("gs_center", frame_color),
                             <<Px(left), Px(center),
                               Px(G5_WIDTH - gsFromLeft), Px(center)>>) >>
                    \o [i \in 1..4 |->
                          Shape(Ellipse("gs_circle", frame_color, "transparent"),
                                <<Px((2 * (G5_WIDTH - gsFromLeft) - gsWidth)
                                     \div 2),
                                  Px(center + gsOffsets[i]),
                                  Px(gsCircleRad) \div 2,
                                  Px(gsCircleRad) \div 2>>)])
                \o << Under(moved,
                            Polygon("gs_diamond", "black", n["nav_color"])) >>,
             xf |-> Identity]
    ELSE [ops |-> << >>, xf |-> xf]

\* draw_glideslope without the resetTransform that ends it.
draw_glideslope_noReset(f, n, xf, gsWidth, gsHeigth, gsFromLeft, frame_color, center) ==
    IF n["gs_available"] # 0 THEN
        LET gsCircleRad == gsWidth - 6
            left == G5_WIDTH - gsFromLeft - gsWidth
            top  == Px(center) - Px(gsHeigth) \div 2
            vert_source_txt ==
                IF int(f["hsiSource"]) = 2 /\ f["gpsgsavailable"] = 0
                THEN "V" ELSE "G"
            moved == translate(xf, Px(left),
                               Px(center) + n["gs_dev"] * gsHeigth * 16)
        IN  [ops |->
                AllUnder(xf,
                    << Text("gs_source", n["nav_color"], vert_source_txt),
                       Shape(Rect("gs_source_box", frame_color, "transparent"),
                             <<Px(left), top - Px(15), Px(gsWidth), Px(15)>>),
                       Shape(Rect("gs_ladder", frame_color, "transparent"),
                             <<Px(left), top, Px(gsWidth), Px(gsHeigth)>>),
                       Shape(Line("gs_center", frame_color),
                             <<Px(left), Px(center),
                               Px(G5_WIDTH - gsFromLeft), Px(center)>>) >>
                    \o [i \in 1..4 |->
                          Shape(Ellipse("gs_circle", frame_color, "transparent"),
                                <<Px((2 * (G5_WIDTH - gsFromLeft) - gsWidth)
                                     \div 2),
                                  Px(center + gsOffsets[i]),
                                  Px(gsCircleRad) \div 2,
                                  Px(gsCircleRad) \div 2>>)])
                \o << Under(moved,
                            Polygon("gs_diamond", "black", n["nav_color"])) >>,
             xf |-> moved]
    ELSE [ops |-> << >>, xf |-> xf]

draw_glideslope(f, n, xf, gsWidth, gsHeigth, gsFromLeft, frame_color, center) ==
    IF n["gs_available"] # 0 THEN
        LET gsCircleRad == gsWidth - 6
            left == G5_WIDTH - gsFromLeft - gsWidth
            top  == Px(center) - Px(gsHeigth) \div 2
            vert_source_txt ==
                IF int(f["hsiSource"]) = 2 /\ f["gpsgsavailable"] = 0
                THEN "V" ELSE "G"
            moved == translate(xf, Px(left),
                               Px(center) + n["gs_dev"] * gsHeigth * 16)
        IN  [ops |->
                AllUnder(xf,
                    << Text("gs_source", n["nav_color"], vert_source_txt),
                       Shape(Rect("gs_source_box", frame_color, "transparent"),
                             <<Px(left), top - Px(15), Px(gsWidth), Px(15)>>),
                       Shape(Rect("gs_ladder", frame_color, "transparent"),
                             <<Px(left), top, Px(gsWidth), Px(gsHeigth)>>),
                       Shape(Line("gs_center", frame_color),
                             <<Px(left), Px(center),
                               Px(G5_WIDTH - gsFromLeft), Px(center)>>) >>
                    \o [i \in 1..4 |->
                          Shape(Ellipse("gs_circle", frame_color, "transparent"),
                                <<Px((2 * (G5_WIDTH - gsFromLeft) - gsWidth)
                                     \div 2),
                                  Px(center + gsOffsets[i]),
                                  Px(gsCircleRad) \div 2,
                                  Px(gsCircleRad) \div 2>>)])
                \o << Under(moved,
                            Polygon("gs_diamond", "black", n["nav_color"])) >>,
             xf |-> Identity]
    ELSE [ops |-> << >>, xf |-> xf]

(***************************************************************************)
(* The compass rose loop of the HSI: a tick every 5 degrees and a label    *)
(* every 30.                                                               *)
(***************************************************************************)
RoseText(currentHead) ==
    IF currentHead = 0 THEN "N"
    ELSE IF currentHead = 90 THEN "E"
    ELSE IF currentHead = 180 THEN "S"
    ELSE IF currentHead = 270 THEN "W"
    ELSE IF currentHead % 30 = 0 THEN SpacePad(currentHead \div 10, 2)
    ELSE ""

(***************************************************************************)
(* The painter while a paint pass runs: the primitives issued so far and   *)
(* the transform in force.  Issue draws under the transform in force.      *)
(***************************************************************************)
Painter(ops, xf) == [ops |-> ops, xf |-> xf]

Issue(q, ops) == Painter(q.ops \o AllUnder(q.xf, ops), q.xf)

Rotate(q, a) == Painter(q.ops, rotate(q.xf, a))

Translate(q, x, y) == Painter(q.ops, translate(q.xf, x, y))

ResetTransform(q) == Painter(q.ops, Identity)

max(a, b) == IF a >= b THEN a ELSE b

min(a, b) == IF a <= b THEN a ELSE b

(***************************************************************************)
(* The fixed markers of the HSI: rotate(-marker), a line, rotate(marker).  *)
(***************************************************************************)
hsiPeripheralMarkers == <<45, 90, 135, 225, 270, 315>>

RECURSIVE Markers(_, _)
Markers(i, q) ==
    IF i > Len(hsiPeripheralMarkers) THEN q
    ELSE LET marker == Num(hsiPeripheralMarkers[i])
         IN  CHOOSE r \in
                 { Markers(i + 1, marked) :
                     marked \in { Rotate(Issue(Rotate(q, -marker),
                                               << Line("hsi_marker", "white") >>),
                                         marker) } } : TRUE

(***************************************************************************)
(* One turn of the rose loop at currentHead: the tick; for a label the     *)
(* translate to the text radius, the rotation by magHeading - currentHead, *)
(* the text and the two inverse calls; then rotate(+5).                    *)
(***************************************************************************)
\* RoseStep without the rotation back after the label.
RoseStep_noRotateBack(currentHead, q, magHeading) ==
    LET text   == RoseText(currentHead)
        ticked == Issue(q, << Line("rose_tick", "white") >>)
        turned == Rotate(Translate(ticked, 0, Px(-120)),
                         magHeading - Num(currentHead))
        drawn  == Issue(turned, << Text("rose_label", "white", text) >>)
        back   == Translate(drawn, 0, Px(120))
    IN  Rotate(IF Len(text) > 0 THEN back ELSE ticked, Num(5))

RoseStep(currentHead, q, magHeading) ==
    LET text   == RoseText(currentHead)
        ticked == Issue(q, << Line("rose_tick", "white") >>)
        turned == Rotate(Translate(ticked, 0, Px(-120)),
                         magHeading - Num(currentHead))
        drawn  == Issue(turned, << Text("rose_label", "white", text) >>)
        back   == Translate(Rotate(drawn, -magHeading + Num(currentHead)),
                            0, Px(120))
    IN  Rotate(IF Len(text) > 0 THEN back ELSE ticked, Num(5))

\* The turns of the loop for currentHead from `from` up to, not including,
\* `to`, entered with the transform xf in force: the primitives they issue
\* and the transform they leave.  The turns run in order, the second half
\* starting from what the first half leaves.
RECURSIVE Rose(_, _, _, _)
Rose(from, to, xf, magHeading) ==
    IF to - from <= 5
    THEN RoseStep(from, Painter(<< >>, xf), magHeading)
    ELSE LET mid   == from + 5 * (((to - from) \div 5) \div 2)
             first == Rose(from, mid, xf, magHeading)
             rest  == Rose(mid, to, first.xf, magHeading)
         IN  Painter(first.ops \o rest.ops, rest.xf)

(***************************************************************************)
(* The CDI of the HSI, entered with the heading-bug rotation in force:     *)
(* arrow and tail, then, unless int(nav_from_to) is 0, the deflection bar  *)
(* at max(min(nav_dft, bound), -bound) / 2 * 75 with bound =               *)
(* hsiCircleRadius / 75 * 2 and the from/to triangle, between two          *)
(* rotate(180) when int(nav_from_to) is 2; then rotate(90) and the four    *)
(* circles.  geom of the bar is <<x1, y1, x2, y2>>, its opposite corners.  *)
(***************************************************************************)
\* cdiBar without the clamp of the deflection.
cdiBar_noClamp(n) ==
    LET hsiCircleRadius == 90
        hsiDeflectionBound == (hsiCircleRadius * 2 * 100) \div 75
        deflection ==
            (n["nav_dft"] * Px(75)) \div 200
    IN  Shape(Polygon("cdi_bar", "black", n["nav_color"]),
              <<Px(hsiCircleRadius - 10), deflection - Px(3),
                Px(-hsiCircleRadius + 10), deflection + Px(3)>>)

cdiBar(n) ==
    LET hsiCircleRadius == 90
        hsiDeflectionBound == (hsiCircleRadius * 2 * 100) \div 75
        deflection ==
            (max(min(n["nav_dft"], hsiDeflectionBound), -hsiDeflectionBound)
             * Px(75)) \div 200
    IN  Shape(Polygon("cdi_bar", "black", n["nav_color"]),
              <<Px(hsiCircleRadius - 10), deflection - Px(3),
                Px(-hsiCircleRadius + 10), deflection + Px(3)>>)

\* fromTo without the second rotate(180).
fromTo_noRestore(q, n) ==
    LET flipped  == IF int(n["nav_from_to"]) = 2 THEN Rotate(q, Num(180))
                    ELSE q
        drawn    == Issue(flipped,
                          << Polygon("from_to", "black", n["nav_color"]) >>)
    IN  drawn

fromTo(q, n) ==
    LET flipped  == IF int(n["nav_from_to"]) = 2 THEN Rotate(q, Num(180))
                    ELSE q
        drawn    == Issue(flipped,
                          << Polygon("from_to", "black", n["nav_color"]) >>)
    IN  IF int(n["nav_from_to"]) = 2 THEN Rotate(drawn, Num(180)) ELSE drawn

\* cdi with the deflection bar drawn whatever the from/to flag is.
cdi_barAlways(q, f, n) ==
    LET turned == Rotate(q, Num(90) - f["headingBug"] + n["nav_crs"])
        needle == Issue(turned,
                        << Polygon("cdi_arrow", "black", n["nav_color"]),
                           Polygon("cdi_tail", "black", n["nav_color"]) >>)
        flagged == IF int(n["nav_from_to"]) # 0
                   THEN fromTo(Issue(needle, << cdiBar(n) >>), n)
                   ELSE Issue(needle, << cdiBar(n) >>)
    IN  Issue(Rotate(flagged, Num(90)),
              [i \in 1..4 |-> Arc("cdi_circle", "white")])

\* cdi with its rotation not taking the heading bug out again.
cdi_bugKept(q, f, n) ==
    LET turned == Rotate(q, Num(90) + n["nav_crs"])
        needle == Issue(turned,
                        << Polygon("cdi_arrow", "black", n["nav_color"]),
                           Polygon("cdi_tail", "black", n["nav_color"]) >>)
        flagged == IF int(n["nav_from_to"]) # 0
                   THEN fromTo(Issue(needle, << cdiBar(n) >>), n)
                   ELSE needle
    IN  Issue(Rotate(flagged, Num(90)),
              [i \in 1..4 |-> Arc("cdi_circle", "white")])

cdi(q, f, n) ==
    LET turned == Rotate(q, Num(90) - f["headingBug"] + n["nav_crs"])
        needle == Issue(turned,
                        << Polygon("cdi_arrow", "black", n["nav_color"]),
                           Polygon("cdi_tail", "black", n["nav_color"]) >>)
        flagged == IF int(n["nav_from_to"]) # 0
                   THEN fromTo(Issue(needle, << cdiBar(n) >>), n)
                   ELSE needle
    IN  Issue(Rotate(flagged, Num(90)),
              [i \in 1..4 |-> Arc("cdi_circle", "white")])

(***************************************************************************)
(* pyG5HSIWidget.paintEvent below the powered-off test, in three parts:    *)
(* the rotating part up to the resetTransform that follows the CDI, the    *)
(* labels and boxes up to the aircraft symbol, and the glideslope with the *)
(* course box.  Each takes the painter as the part before left it.         *)
(***************************************************************************)
hsiRotating(q, f, n) ==
    LET centred == Translate(q, Px(G5_CENTER_X), Px(HSI_CENTER))
        circled == Issue(centred, << Arc("hsi_circle", "grey") >>)
        roseOn(marked) ==
            { Painter(marked.ops \o rose.ops, rose.xf) :
                rose \in { Rose(0, 360, rotate(marked.xf, -f["magHeading"]),
                                f["magHeading"]) } }
        bugOn(rose) ==
            Issue(Rotate(rose, Num(180) + f["headingBug"]),
                  << Polygon("heading_bug", "cyan", "cyan") >>)
    IN  CHOOSE r \in
            { ResetTransform(cdi(bug, f, n)) :
                bug \in { bugOn(rose) :
                    rose \in UNION { roseOn(marked) :
                        marked \in { Markers(1, circled) } } } } : TRUE

hsiBoxes(q, f, n) ==
    LET labelled ==
            Issue(q,
                << Text("cdi_source", n["nav_color"], n["cdi_source"]) >>
                \o (IF Len(n["gps_cdi_annunciator"]) > 0
                    THEN << Text("annunciator", n["nav_color"],
                                 n["gps_cdi_annunciator"]) >>
                    ELSE << >>)
                \o << Rect("bug_box", "cyan", "black"),
                      Polygon("bug_symbol", "cyan", "cyan"),
                      Text("bug_readout", "cyan",
                           ZeroPad(int(f["headingBug"]), 3) \o "deg") >>
                \o (IF int(f["hsiSource"]) = 2
                    THEN << Rect("dist_box", "grey", "black"),
                            Text("dist_title", "grey", "Dist NM"),
                            Text("dist_value", n["nav_color"],
                                 repr1(round1(f["gpsdmedist"]))) >>
                    ELSE << >>)
                \o << Rect("wind_box", "grey", "black") >>)
        wind ==
            ResetTransform(
                Issue(Rotate(Translate(labelled, Px(25), Px(25)),
                             Num(180) - f["magHeading"] + f["windDirection"]),
                      << Polygon("wind_arrow", "white", "white") >>))
        heading ==
            Issue(wind,
                << Text("wind_direction", "white",
                        ZeroPad(int(f["windDirection"]), 3) \o "deg"),
                   Text("wind_speed", "white",
                        ZeroPad(TruncDiv(f["windSpeed"] * 194384, 10000000), 2)
                        \o "kt"),
                   Polygon("heading_box", "grey", "black"),
                   Text("heading_readout", "grey",
                        ZeroPad(int(f["magHeading"]), 3) \o "deg") >>)
        track ==
            ResetTransform(
                Issue(Rotate(Translate(heading, Px(G5_CENTER_X), Px(HSI_CENTER)),
                             -f["magHeading"] + f["groundTrack"]),
                      << Polygon("ground_track", "transparent", "magenta"),
                         Line("track_line", "grey") >>))
    IN  Issue(track, << Polygon("aircraft", "white", "white") >>)

hsiCourse(q, f, n) ==
    LET gs == draw_glideslope(f, n, q.xf, 16, 192, 20, "grey", HSI_CENTER)
    IN  Issue(Painter(q.ops \o gs.ops, gs.xf),
              << Rect("crs_box", "grey", "black"),
                 Text("crs_title", "white", "CRS"),
                 Text("crs_readout", n["nav_color"],
                      ZeroPad(int(n["nav_crs"]), 3) \o "deg") >>)

\* The three parts run one after the other, each on the painter the part
\* before it has left.
HSIPainter(f, n) ==
    CHOOSE q \in { hsiCourse(boxed, f, n) :
                     boxed \in { hsiBoxes(turned, f, n) :
                         turned \in { hsiRotating(Painter(<< >>, Identity),
                                                  f, n) } } } : TRUE

HSIPowered(f, n) == HSIPainter(f, n).ops

(***************************************************************************)
(* The pitch ladder of the attitude indicator.  rollArcRadius is           *)
(* G5_CENTER_Y * 0.8 = 144 and _pitchScale is 25, so a pitch of one degree *)
(* is 180 / 25 pixels: 576 lengths for a hundredth of a degree.  The first *)
(* loop steps pitch up by 2.5 while height < rollArcRadius - 40, the       *)
(* second steps it down while height > -rollArcRadius + 30; both test      *)
(* before the step and draw after it.  Every fourth line (width 30) gets   *)
(* its two labels.  geom of a line is <<x1, y1, x2, y2>>.                  *)
(***************************************************************************)
pitchWidth == <<10, 20, 10, 30>>

pitchLine(pitch, mode, height) ==
    << Shape(Line("pitch_line", "white"),
             <<Px(-pitchWidth[mode + 1]), height,
               Px(pitchWidth[mode + 1]), height>>) >>
    \o (IF pitchWidth[mode + 1] = 30
        THEN << Text("pitch_label", "white", ToString(Abs(int(pitch)))),
                Text("pitch_label", "white", ToString(Abs(int(pitch)))) >>
        ELSE << >>)

RECURSIVE pitchLines(_, _, _, _, _)
pitchLines(step, pitch, mode, height, f) ==
    IF (step > 0 /\ height < Px(144 - 40)) \/ (step < 0 /\ height > Px(-144 + 30))
    THEN LET next == pitch + step
             h    == 576 * next + 576 * f["pitchAngle"]
         IN  pitchLine(next, mode, h)
             \o pitchLines(step, next, (mode + 1) % 4, h, f)
    ELSE << >>

(***************************************************************************)
(* The graduation of the speed tape: currentTape runs down by 1 from       *)
(* int(kias + 25) while it is above max(0, kias - 25); a line and a label  *)
(* at the multiples of 10, a line at the other multiples of 5.  The turns  *)
(* of the loop between two multiples of 5 draw nothing and are taken       *)
(* together.                                                               *)
(***************************************************************************)
tapeHeight(currentTape, f) == Px(G5_CENTER_Y) - 576 * (Num(currentTape) - f["kias"])

RECURSIVE speedTape(_, _)
speedTape(currentTape, f) ==
    IF Num(currentTape) > max(0, f["kias"] - Num(25))
    THEN (IF currentTape % 10 = 0
          THEN << Shape(Line("speed_tick", "white"),
                        <<Px(87), tapeHeight(currentTape, f),
                          Px(97), tapeHeight(currentTape, f)>>),
                  Text("speed_label", "white", ToString(currentTape)) >>
          ELSE IF currentTape % 5 = 0
          THEN << Shape(Line("speed_tick", "white"),
                        <<Px(90), tapeHeight(currentTape, f),
                          Px(97), tapeHeight(currentTape, f)>>) >>
          ELSE << >>)
         \o speedTape(IF currentTape % 5 = 0 THEN currentTape - 5
                      ELSE currentTape - (currentTape % 5), f)
    ELSE << >>

(***************************************************************************)
(* The vertical-speed scale: currentTape from vsScale = 30 down to 0, a    *)
(* line each time and a label at the multiples of 5.                       *)
(***************************************************************************)
RECURSIVE vsTape(_)
vsTape(currentTape) ==
    IF currentTape >= 0
    THEN << Line("vs_tick", "white") >>
         \o (IF currentTape % 5 = 0
             THEN << Text("vs_label", "white", ToString(Abs(currentTape - 15))) >>
             ELSE << >>)
         \o vsTape(currentTape - 1)
    ELSE << >>

(***************************************************************************)
(* The graduation of the altitude tape: currentTape runs down by 1 from    *)
(* int(altitude + 150) while it is above altitude - 150; a line at the     *)
(* multiples of 20 and a label at the multiples of 100.  The turns of the  *)
(* loop between two multiples of 20 draw nothing and are taken together.   *)
(***************************************************************************)
RECURSIVE altTape(_, _)
altTape(currentTape, f) ==
    IF Num(currentTape) > f["altitude"] - Num(150)
    THEN IF currentTape % 20 = 0
         THEN << Line("alt_tick", "white") >>
              \o (IF currentTape % 100 = 0
                  THEN << Text("alt_label", "white", ToString(currentTape)) >>
                  ELSE << >>)
              \o altTape(currentTape - 20, f)
         ELSE altTape(currentTape - (currentTape % 20), f)
    ELSE << >>

(***************************************************************************)
(* The bands of the speed tape.  Each is a drawRect(QRectF(x, y, w, h))    *)
(* and geom is <<x, y, w, h>>.  A speed s lies at the tape height          *)
(* (1 - 2 * (s - kias) / tapeScale) * G5_CENTER_Y.  The green and the      *)
(* white band are both drawn when kias + tapeScale / 2 > vs.               *)
(***************************************************************************)
bandHeight(speed, f) == Px(G5_CENTER_Y) - 576 * (speed - f["kias"])

\* speedBands with the red band also drawn when kias + 25 equals vne.
speedBands_ge(f) ==
    (IF f["kias"] + Num(25) >= f["vne"]
     THEN << Shape(Rect("band_vne", "transparent", "red"),
                   <<Px(90), 0, Px(8), bandHeight(f["vne"], f)>>) >>
     ELSE << >>)
    \o (IF f["kias"] + Num(25) > f["vno"]
        THEN << Shape(Rect("band_vno", "transparent", "yellow"),
                      <<Px(90), bandHeight(f["vne"], f), Px(8),
                        576 * (f["vne"] - f["vno"])>>) >>
        ELSE << >>)
    \o (IF f["kias"] + Num(25) > f["vs"]
        THEN << Shape(Rect("band_vs", "transparent", "green"),
                      <<Px(90), max(0, bandHeight(f["vno"], f)), Px(8),
                        bandHeight(f["vs"], f)>>) >>
        ELSE << >>)
    \o (IF f["kias"] + Num(25) > f["vs"]
        THEN << Shape(Rect("band_flaps", "transparent", "white"),
                      <<Px(95), max(0, bandHeight(f["vfe"], f)), Px(3),
                        bandHeight(f["vs0"], f)>>) >>
        ELSE << >>)

speedBands(f) ==
    (IF f["kias"] + Num(25) > f["vne"]
     THEN << Shape(Rect("band_vne", "transparent", "red"),
                   <<Px(90), 0, Px(8), bandHeight(f["vne"], f)>>) >>
     ELSE << >>)
    \o (IF f["kias"] + Num(25) > f["vno"]
        THEN << Shape(Rect("band_vno", "transparent", "yellow"),
                      <<Px(90), bandHeight(f["vne"], f), Px(8),
                        576 * (f["vne"] - f["vno"])>>) >>
        ELSE << >>)
    \o (IF f["kias"] + Num(25) > f["vs"]
        THEN << Shape(Rect("band_vs", "transparent", "green"),
                      <<Px(90), max(0, bandHeight(f["vno"], f)), Px(8),
                        bandHeight(f["vs"], f)>>) >>
        ELSE << >>)
    \o (IF f["kias"] + Num(25) > f["vs"]
        THEN << Shape(Rect("band_flaps", "transparent", "white"),
                      <<Px(95), max(0, bandHeight(f["vfe"], f)), Px(3),
                        bandHeight(f["vs0"], f)>>) >>
        ELSE << >>)

(***************************************************************************)
(* "{:02.02f}".format(x) for x in hundredths.                              *)
(***************************************************************************)
fmt2f(t) ==
    (IF t < 0 THEN "-" ELSE "")
    \o ToString(Abs(t) \div 100) \o "." \o ZeroPad(Abs(t) % 100, 2)

(***************************************************************************)
(* The values of a parameter are counted in hundredths, within the         *)
(* integers TLC holds.  The largest of them, Huge, and its negative        *)
(* stand for the finite floats whose whole part is beyond the              *)
(* range of a 64-bit integer, such as 1e19 and -1e300; no arithmetic is    *)
(* done on them.  Only the slip parameter takes such a value here.         *)
(***************************************************************************)
Huge == 2147483647

IsBig(v) == v >= Huge \/ v <= -Huge

(***************************************************************************)
(* The slip ball: drawEllipse(QPoint(int(G5_CENTER_X - slip * 15),         *)
(* int(slipballHeigh)), 15, 15).  QPoint takes C ints: the conversion of a *)
(* Python int beyond the 64-bit range raises OverflowError, which leaves   *)
(* paintEvent.  geom is <<cx, cy, rx, ry>> in whole pixels.                *)
(***************************************************************************)
slipBall(slip) ==
    IF IsBig(slip)
    THEN [raised |-> "OverflowError", ops |-> << >>]
    ELSE [raised |-> "",
          ops |-> << Shape(Ellipse("slip_ball", "shade", "gradient"),
                           <<TruncDiv(Num(G5_CENTER_X) - slip * 15, 100),
                             320, 15, 15>>) >>]

(***************************************************************************)
(* The turn-rate bar: drawRect(QRectF(G5_CENTER_X, G5_HEIGHT - 14,         *)
(* min(max(turnRate, -73), 73) / 32 * turnrateHalfWidth, 13)) with         *)
(* turnrateHalfWidth = 62.  geom is <<x, y, w, h>>.                        *)
(***************************************************************************)
\* turnRateBar without the clamp of the turn rate.
turnRateBar_noClamp(f) ==
    LET turnrateHalfWidth == 62
        turnrateHeight == 15
    IN  Shape(Rect("turn_rate", "transparent", "magenta"),
              <<Px(G5_CENTER_X), Px(G5_HEIGHT - turnrateHeight + 1),
                f["turnRate"]
                * (Px(turnrateHalfWidth) \div (32 * 100)),
                Px(turnrateHeight - 2)>>)

turnRateBar(f) ==
    LET turnrateHalfWidth == 62
        turnrateHeight == 15
    IN  Shape(Rect("turn_rate", "transparent", "magenta"),
              <<Px(G5_CENTER_X), Px(G5_HEIGHT - turnrateHeight + 1),
                min(max(f["turnRate"], Num(-73)), Num(73))
                * (Px(turnrateHalfWidth) \div (32 * 100)),
                Px(turnrateHeight - 2)>>)

(***************************************************************************)
(* pyG5AIWidget.paintEvent below the powered-off test, in four parts: the  *)
(* part that rotates with the roll angle, up to its resetTransform; the    *)
(* aircraft symbol and the speed tape; the altitude tape; the turn         *)
(* coordinator with the slip ball and the glideslope.  The last part       *)
(* yields the painter and the exception that ended the pass early, if any. *)
(***************************************************************************)
aiRolling(q, f) ==
    LET sky     == Issue(q, << Rect("sky", "white", "gradient") >>)
        rolled  == Rotate(Translate(sky, Px(G5_CENTER_X), Px(G5_CENTER_Y)),
                          -f["rollAngle"])
        ground  == Issue(rolled, << Rect("ground", "white", "gradient") >>)
        ladder  == Issue(ground, pitchLines(250, 0, 0, 0, f)
                                 \o pitchLines(-250, 0, 0, 0, f))
    IN  ResetTransform(
            Issue(ladder,
                  << Arc("roll_arc", "white") >>
                  \o [i \in 1..10 |-> Line("roll_marker", "white")]
                  \o << Polygon("roll_pointer", "white", "white") >>))

aiSpeed(q, f) ==
    LET symbol ==
            Issue(q,
                << Polygon("fixed_diamond", "white", "white") >>
                \o [i \in 1..4 |-> Polygon("aircraft_symbol", "black", "yellow")]
                \o [i \in 1..2 |-> Polygon("aircraft_symbol", "black", "pattern")]
                \o [i \in 1..2 |->
                      Polygon("aircraft_symbol", "transparent", "pattern")]
                \o << Rect("speed_tape", "transparent", "shade") >>
                \o speedBands(f))
        tape == Issue(symbol, speedTape(int(f["kias"] + Num(25)), f))
    IN  Issue(tape,
            << Polygon("speed_box", "white", "black"),
               Text("speed_readout", "white", ZeroPad(int(f["kias"]), 3)),
               Rect("tas_box", "white", "black"),
               Text("tas_readout", "white",
                    "TAS " \o ZeroPad(int(f["ktas"]), 3) \o " kt"),
               Rect("gs_box", "white", "black"),
               Text("gs_title", "white", "GS"),
               Text("gs_readout", "magenta",
                    ZeroPad(TruncDiv(f["gs"] * 194384, 10000000), 3) \o " kt"),
               Rect("speed_trend", "magenta", "magenta") >>)

aiAltitude(q, f) ==
    LET scale == Issue(q, << Rect("alt_tape", "transparent", "shade") >>
                          \o vsTape(30))
        vsBar == Issue(scale, << Rect("vs_bar", "transparent", "magenta") >>)
        tape  == Issue(vsBar, altTape(int(f["altitude"] + Num(150)), f))
    IN  Issue(tape,
            << Polygon("alt_box", "white", "black"),
               Text("alt_readout", "white", ZeroPad(int(f["altitude"]), 5)),
               Rect("alt_setting_box", "cyan", "black"),
               Text("alt_setting", "cyan", fmt2f(f["alt_setting"])) >>)

aiTurn(q, f, n) ==
    LET marks == Issue(q,
                    << Line("turn_scale", "shade"),
                       Line("turn_scale", "shade"),
                       turnRateBar(f),
                       Line("turn_limit", "shade"),
                       Line("turn_limit", "shade"),
                       Rect("slip_mark", "shade", "lightgrey"),
                       Rect("slip_mark", "shade", "lightgrey") >>)
        ball  == slipBall(f["slip"])
        gs    == draw_glideslope(f, n, marks.xf, 12, 172, 100, "white",
                                 G5_CENTER_Y)
    IN  IF ball.raised # ""
        THEN [ops |-> marks.ops, xf |-> marks.xf, raised |-> ball.raised]
        ELSE [ops |-> marks.ops \o AllUnder(marks.xf, ball.ops) \o gs.ops,
              xf |-> gs.xf, raised |-> ""]

\* The four parts run one after the other, each on the painter the part
\* before it has left.
AIPainter(f, n) ==
    CHOOSE q \in { aiTurn(tapes, f, n) :
                     tapes \in { aiAltitude(speed, f) :
                         speed \in { aiSpeed(rolled, f) :
                             rolled \in { aiRolling(Painter(<< >>, Identity),
                                                    f) } } } } : TRUE

AIPowered(f, n) == AIPainter(f, n).ops

(***************************************************************************)
(* The part of each paintEvent that follows derive_settings: the canvas,   *)
(* the exception that left it ("" when none) and the number of qp.end()    *)
(* calls made.  The HSI draws its background before the powered-off test,  *)
(* the attitude indicator inside it; each path ends with one qp.end().     *)
(***************************************************************************)
Painted(ops, exception, ends) ==
    [canvas |-> ops, raised |-> exception, ends |-> ends]

\* hsiPaint without the return that ends the powered-off branch.
hsiPaint_noReturn(f, n) ==
    IF f["avionicson"] = 0
    THEN Painted(<< Background >> \o OffCross \o HSIPowered(f, n), "", 2)
    ELSE Painted(<< Background >> \o HSIPowered(f, n), "", 1)

hsiPaint(f, n) ==
    IF f["avionicson"] = 0
    THEN Painted(<< Background >> \o OffCross, "", 1)
    ELSE Painted(<< Background >> \o HSIPowered(f, n), "", 1)

aiPaint(f, n) ==
    IF f["avionicson"] = 0
    THEN Painted(<< Background >> \o OffCross, "", 1)
    ELSE LET q == AIPainter(f, n)
         IN  Painted(q.ops, q.raised, IF q.raised = "" THEN 1 ELSE 0)

\* What a paint pass leaves: the derived attributes and the errors logged by
\* derive_settings (d), the canvas, exception and qp.end() calls of the
\* drawing (r).
PaintPass(d, r) ==
    [nav |-> d.nav, errors |-> d.errors, canvas |-> r.canvas,
     raised |-> r.raised, ends |-> r.ends, active |-> r.ends = 0]

\* The drawing of the widget class w after derive_settings gave d.
drawing_noReturn(w, f, d) ==
    PaintPass(d, IF w = "HSI" THEN hsiPaint_noReturn(f, d.nav)
                 ELSE aiPaint(f, d.nav))

drawing(w, f, d) ==
    PaintPass(d, IF w = "HSI" THEN hsiPaint(f, d.nav) ELSE aiPaint(f, d.nav))

\* paintEvent without the return that ends the powered-off branch of the HSI.
paintEvent_noReturn(w, f, n) ==
    CHOOSE r \in { drawing_noReturn(w, f, d) :
                     d \in { derive_settings(f, n) } } : TRUE

(***************************************************************************)
(* paintEvent of the widget class w on stored parameters f and derived     *)
(* attributes n: derive_settings, a new QPainter, then the drawing.  The   *)
(* painter is active from its construction to qp.end().                    *)
(***************************************************************************)
paintEvent(w, f, n) ==
    CHOOSE r \in { drawing(w, f, d) : d \in { derive_settings(f, n) } } : TRUE

(***************************************************************************)
(* The widget after pyG5Widget.__init__: every "_p" holds its default, the *)
(* derived attributes are only annotated on the class and do not exist.    *)
(***************************************************************************)
Defaults == [p \in Props |-> Default(p)]

(***************************************************************************)
(* The threads that run code of the widget and where each is: "idle",      *)
(* "repaint" (a setter has stored its value and is about to repaint),      *)
(* "derived" (paintEvent has run derive_settings) or "drawn".  reads lists *)
(* the FlightState the thread's paint pass saw at each of its steps.       *)
(***************************************************************************)
Threads == {"gui", "updater"}

NoPass == [t \in Threads |-> [pc |-> "idle", reads |-> << >>]]

Init ==
    /\ widget \in {"HSI", "AI"}
    /\ fs = Defaults
    /\ added = {}
    /\ nav = NoAttrs
    /\ canvas = << >>
    /\ qpActive = FALSE
    /\ handler = ""
    /\ painted = << >>
    /\ logged = 0
    /\ raised = ""
    /\ qpEnds = 0
    /\ pass = NoPass

(***************************************************************************)
(* A call of derive_settings on its own.                                   *)
(***************************************************************************)
DeriveSettings ==
    \E d \in {derive_settings(fs, nav)} :
        /\ nav' = d.nav
        /\ logged' = d.errors
        /\ raised' = ""
        /\ handler' = "derive_settings"
        /\ UNCHANGED <<widget, fs, added, canvas, qpActive, painted, qpEnds,
                       pass>>

(***************************************************************************)
(* paintEvent delivered by Qt (the widget is shown or exposed).            *)
(***************************************************************************)
PaintEvent ==
    \E r \in {paintEvent(widget, fs, nav)} :
        /\ nav' = r.nav
        /\ canvas' = r.canvas
        /\ qpActive' = r.active
        /\ handler' = "paintEvent"
        /\ painted' = << fs >>
        /\ logged' = r.errors
        /\ raised' = r.raised
        /\ qpEnds' = r.ends
        /\ UNCHANGED <<widget, fs, added, pass>>

(***************************************************************************)
(* The paint passes a handler ran through repaint(), in order, starting    *)
(* from derived attributes and canvas `last`: what the last pass leaves.   *)
(* repaint() runs paintEvent before it returns; an exception that leaves   *)
(* paintEvent leaves the handler.                                          *)
(***************************************************************************)
Painting(n, c, active, ends) ==
    [nav |-> n, canvas |-> c, active |-> active, ends |-> ends,
     errors |-> 0, raised |-> ""]

\* What the handler has after the paint pass r, having had last before it.
repainted(last, r) ==
    [nav |-> r.nav, canvas |-> r.canvas, active |-> r.active,
     ends |-> r.ends, errors |-> last.errors + r.errors, raised |-> r.raised]

RECURSIVE repaint(_, _, _, _)
repaint(w, passes, i, last) ==
    IF i > Len(passes) \/ last.raised # "" THEN last
    ELSE repaint(w, passes, i + 1,
                 repainted(last, paintEvent(w, passes[i], last.nav)))

(***************************************************************************)
(* The generated setter of property p called with inputVal: setattr of     *)
(* "_p", then repaint().  painted lists the FlightState of each repaint.   *)
(***************************************************************************)
\* setter with the loop variable of __init__ bound late: every generated
\* setter stores to the last property of the list.
setter_lateBinding(f, p, inputVal) ==
    [fs |-> [f EXCEPT ![propertyList[Len(propertyList)][1]] = inputVal],
     painted |-> << [f EXCEPT ![propertyList[Len(propertyList)][1]] = inputVal] >>]

setter(f, p, inputVal) ==
    [fs |-> [f EXCEPT ![p] = inputVal],
     painted |-> << [f EXCEPT ![p] = inputVal] >>]

Setter(p, inputVal) ==
    \E s \in {setter(fs, p, inputVal)} :
    \E r \in {repaint(widget, s.painted, 1,
                      Painting(nav, canvas, qpActive, qpEnds))} :
        /\ fs' = s.fs
        /\ painted' = s.painted
        /\ raised' = r.raised
        /\ logged' = r.errors
        /\ nav' = r.nav
        /\ canvas' = r.canvas
        /\ qpActive' = r.active
        /\ qpEnds' = r.ends
        /\ handler' = "setter"
        /\ UNCHANGED <<widget, added, pass>>

(***************************************************************************)
(* drefHandler(retValues).  retValues is a dict; its values, in iteration  *)
(* order, are the entries.  An entry is a tuple of len elements, of which  *)
(* value[0] is val and value[3] is id (a string when idIsStr).             *)
(*   setattr(self, value[3], value[0]) raises IndexError when the tuple    *)
(* has fewer than 4 elements and TypeError when value[3] is no string;     *)
(* with a string it succeeds for every name: "_p" stores the parameter p,  *)
(* any other name creates or overwrites that attribute.                    *)
(*   The except clause formats value[5], which raises IndexError when the  *)
(* tuple has fewer than 6 elements; that exception leaves drefHandler.     *)
(***************************************************************************)
StoredName == [p \in Props |-> "_" \o p]

Stored(id) == {p \in Props : StoredName[p] = id}

entry(st, value) ==
    IF value.len >= 4 /\ value.idIsStr THEN
        IF Stored(value.id) # {}
        THEN [st EXCEPT !.fs =
                 [p \in Props |-> IF p \in Stored(value.id) THEN value.val
                                  ELSE st.fs[p]]]
        ELSE [st EXCEPT !.added =
                 {x \in st.added : x[1] # value.id}
                 \cup {<<value.id, value.val>>}]
    ELSE IF value.len >= 6
         THEN [st EXCEPT !.logged = st.logged + 1]
         ELSE [st EXCEPT !.raised = "IndexError"]

RECURSIVE entries(_, _, _)
entries(st, retValues, i) ==
    IF i > Len(retValues) \/ st.raised # "" THEN st
    ELSE entries(entry(st, retValues[i]), retValues, i + 1)

drefHandler(f, a, retValues) ==
    LET st == entries([fs |-> f, added |-> a, logged |-> 0, raised |-> ""],
                      retValues, 1)
    IN  [fs |-> st.fs, added |-> st.added, logged |-> st.logged,
         raised |-> st.raised,
         painted |-> IF st.raised = "" THEN << st.fs >> ELSE << >>]

DrefHandler(retValues) ==
    \E h \in {drefHandler(fs, added, retValues)} :
    \E r \in {repaint(widget, h.painted, 1,
                      Painting(nav, canvas, qpActive, qpEnds))} :
        /\ fs' = h.fs
        /\ added' = h.added
        /\ painted' = h.painted
        /\ raised' = IF h.raised # "" THEN h.raised ELSE r.raised
        /\ logged' = h.logged + r.errors
        /\ nav' = r.nav
        /\ canvas' = r.canvas
        /\ qpActive' = r.active
        /\ qpEnds' = r.ends
        /\ handler' = "drefHandler"
        /\ UNCHANGED <<widget, pass>>

(***************************************************************************)
(* Inputs of the state machine: the values the setters are called with     *)
(* and the entries the batches are made of.                                *)
(***************************************************************************)
MaxBatch == 2

SetterVals ==
    [p \in {"avionicson", "hsiSource", "nav1type"} |->
        CASE p = "avionicson"      -> {0, Num(1)}
          [] p = "hsiSource"       -> {0, Num(1), Num(2)}
          [] p = "nav1type"        -> {0, Num(1), Num(3)}]

Entry(len, idIsStr, id, val) ==
    [len |-> len, idIsStr |-> idIsStr, id |-> id, val |-> val]

SampleEntries ==
    { Entry(4, TRUE, "_avionicson", Num(1)),
      Entry(4, TRUE, "_hsiSource", Num(2)),
      Entry(4, TRUE, "bogus", Num(1)),
      Entry(6, FALSE, "", Num(1)),
      Entry(4, FALSE, "", Num(1)),
      Entry(3, TRUE, "", Num(1)) }

RECURSIVE SeqsUpTo(_, _)
SeqsUpTo(S, k) ==
    IF k = 0 THEN { << >> }
    ELSE LET shorter == SeqsUpTo(S, k - 1)
         IN  shorter \cup {Append(q, e) : q \in shorter, e \in S}

Batches == SeqsUpTo(SampleEntries, MaxBatch)

Next ==
    \/ PaintEvent
    \/ \E p \in DOMAIN SetterVals : \E v \in SetterVals[p] : Setter(p, v)
    \/ \E b \in Batches : DrefHandler(b)

Spec == Init /\ [][Next]_vars

(***************************************************************************)
(* The generated setters alone, each property with two values to be set    *)
(* to, starting from the constructor's defaults.  At most MaxChanged       *)
(* properties are taken away from their defaults.                          *)
(***************************************************************************)
MaxChanged == 1

SetterInputs(p) == {Default(p) + Num(1), Num(7)}

Changed(f) == {q \in Props : f[q] # Default(q)}

NextSetters ==
    \E p \in Props : \E v \in SetterInputs(p) :
        /\ Cardinality(Changed(fs) \cup {p}) <= MaxChanged
        /\ Setter(p, v)

SpecSetters == Init /\ [][NextSetters]_vars

(***************************************************************************)
(* The same state machine with extreme values among its inputs: the values *)
(* the setters are called with and well-formed entries of the batches.     *)
(***************************************************************************)
ExtremeVals ==
    [p \in {"avionicson", "slip", "altitude", "kias"} |->
        CASE p = "avionicson" -> {0, Num(1)}
          [] p = "slip"       -> {0, Num(1), Huge, -Huge}
          [] p = "altitude"   -> {0, Num(50000)}
          [] p = "kias"       -> {0, Num(400)}]

ExtremeEntries ==
    { Entry(4, TRUE, "_avionicson", Num(1)),
      Entry(4, TRUE, "_slip", Huge),
      Entry(4, TRUE, "_slip", 0) }

NextExtreme ==
    \/ PaintEvent
    \/ \E p \in DOMAIN ExtremeVals : \E v \in ExtremeVals[p] : Setter(p, v)
    \/ \E b \in SeqsUpTo(ExtremeEntries, MaxBatch) : DrefHandler(b)

SpecExtreme == Init /\ [][NextExtreme]_vars

(***************************************************************************)
(* Two threads in the code of one widget.  The "gui" thread runs           *)
(* paintEvent when the event loop delivers a paint event; the "updater"    *)
(* thread calls a generated setter, which is a plain closure: it runs      *)
(* setattr and then self.repaint(), hence paintEvent, in the calling       *)
(* thread, and nothing in it waits for or hands over to the other thread.  *)
(* The interpreter may switch threads between any two statements; a paint  *)
(* pass is taken in two steps, derive_settings with the construction of    *)
(* the painter, and the drawing, each of which reads the stored            *)
(* parameters as they are at that moment.                                  *)
(***************************************************************************)
ThreadSetterVals ==
    [p \in {"avionicson", "kias", "magHeading"} |->
        CASE p = "avionicson" -> {0, Num(1)}
          [] p = "kias"       -> {0, Num(130)}
          [] p = "magHeading" -> {0, Num(90)}]

\* setattr(self, "_p", inputVal) in the updater thread; repaint() is next.
SetterStore(p, inputVal) ==
    /\ pass["updater"].pc \in {"idle", "drawn"}
    /\ fs' = [fs EXCEPT ![p] = inputVal]
    /\ pass' = [pass EXCEPT !["updater"] = [pc |-> "repaint", reads |-> << >>]]
    /\ handler' = "setter"
    /\ UNCHANGED <<widget, added, nav, canvas, qpActive, painted, logged,
                   raised, qpEnds>>

\* Thread t enters paintEvent: derive_settings and self.qp = QPainter(self).
PaintBegin(t) ==
    /\ pass[t].pc \in (IF t = "gui" THEN {"idle", "drawn"} ELSE {"repaint"})
    /\ \E d \in {derive_settings(fs, nav)} :
          /\ nav' = d.nav
          /\ logged' = d.errors
    /\ qpActive' = TRUE
    /\ qpEnds' = 0
    /\ handler' = "paintEvent"
    /\ pass' = [pass EXCEPT ![t] = [pc |-> "derived", reads |-> << fs >>]]
    /\ UNCHANGED <<widget, fs, added, canvas, painted, raised>>

\* Thread t runs the rest of paintEvent, to its qp.end().
PaintDraw(t) ==
    /\ pass[t].pc = "derived"
    /\ \E r \in {drawing(widget, fs, [nav |-> nav, errors |-> logged])} :
          /\ canvas' = r.canvas
          /\ raised' = r.raised
          /\ qpEnds' = r.ends
          /\ qpActive' = r.active
    /\ painted' = << fs >>
    /\ pass' = [pass EXCEPT ![t] = [pc |-> "drawn",
                                    reads |-> Append(@.reads, fs)]]
    /\ UNCHANGED <<widget, fs, added, nav, handler, logged>>

NextThreads ==
    \/ \E p \in DOMAIN ThreadSetterVals : \E v \in ThreadSetterVals[p] :
          SetterStore(p, v)
    \/ \E t \in Threads : PaintBegin(t)
    \/ \E t \in Threads : PaintDraw(t)

SpecThreads == Init /\ [][NextThreads]_vars

(***************************************************************************)
(* Switching the source between paint passes.  The widget has been         *)
(* painted with the GPS selected; the three sources hold different values. *)
(* The setters of hsiSource and gpshsisens are then called, each with its  *)
(* repaint.                                                                *)
(***************************************************************************)
SwitchSensVals == {0, 40, 50}

SwitchInputs(on, sens, t2) ==
    [p \in Props |->
        CASE p = "avionicson"        -> on
          [] p = "hsiSource"         -> Num(2)
          [] p = "gpshsisens"        -> sens
          [] p = "nav1type"          -> Num(3)
          [] p = "nav2type"          -> t2
          [] p = "nav1crs"           -> Num(270)
          [] p = "nav1dft"           -> 50
          [] p = "nav1fromto"        -> Num(1)
          [] p = "nav1gs"            -> 125
          [] p = "nav2crs"           -> Num(45)
          [] p = "nav2dft"           -> -25
          [] p = "nav2fromto"        -> Num(2)
          [] p = "nav2gsavailable"   -> Num(1)
          [] p = "nav2gs"            -> -50
          [] p = "gpscrs"            -> Num(10)
          [] p = "gpsdft"            -> 240
          [] p = "gpsgsavailable"    -> Num(1)
          [] p = "gpsvnavavailable"  -> Num(-1000)
          [] p = "gpsgs"             -> -20
          [] OTHER                   -> Default(p)]

InitSwitch ==
    /\ widget \in {"HSI", "AI"}
    /\ \E on \in {0, Num(1)}, sens \in SwitchSensVals, t2 \in {Num(1), Num(3)} :
          fs = SwitchInputs(on, sens, t2)
    /\ \E r \in {paintEvent(widget, fs, NoAttrs)} :
          /\ nav = r.nav
          /\ canvas = r.canvas
          /\ qpActive = r.active
          /\ logged = r.errors
          /\ raised = r.raised
          /\ qpEnds = r.ends
    /\ added = {}
    /\ handler = "paintEvent"
    /\ painted = << fs >>
    /\ pass = NoPass

NextSwitch ==
    \/ PaintEvent
    \/ \E v \in {0, Num(1), Num(2)} : Setter("hsiSource", v)
    \/ \E v \in SwitchSensVals : Setter("gpshsisens", v)

SpecSwitch == InitSwitch /\ [][NextSwitch]_vars

(***************************************************************************)
(* derive_settings as a function of the stored parameters.  The inputs are *)
(* drawn from the sets below: the source selector and the nav types one by *)
(* one, the remaining fields of each source as one of a few value tuples   *)
(* that differ from source to source (all-zero defaults, typical values,   *)
(* values far out of range).                                               *)
(***************************************************************************)
HsiSourceVals == {Num(-1), 0, Num(1), Num(2), 250, Num(3)}

SensVals == {0, 5, 12, 25, 36, 40, 44, 80, 85}

NavTypeVals == {Num(-1), 0, Num(1), Num(2), Num(3), 350, Num(4), Num(7)}

\* <<crs, dft, fromto, gsavailable, gs>>
Nav1Samples ==
    { <<0, 0, 0, 0, 0>>,
      <<Num(270), 50, Num(1), 0, 125>>,
      <<Num(-720), Num(-1000000), Num(2), Num(1), Num(99999)>> }

Nav2Samples ==
    { <<0, 0, 0, 0, 0>>,
      <<Num(45), -25, Num(2), Num(1), -50>>,
      <<Num(1080), Num(1000000), Num(1), 0, Num(-99999)>> }

\* <<crs, dft, fromto, gsavailable, vnavavailable, gs>>
GpsSamples ==
    { <<0, 0, 0, 0, 0, 0>>,
      <<Num(359), -75, Num(1), 0, Num(-1000), 10>>,
      <<Num(10), 240, Num(2), Num(1), Num(-1000), -20>>,
      <<Num(123456), Num(777), 0, Num(1), Num(5), Num(31)>> }

InitDerive ==
    /\ widget = "HSI"
    /\ \E src \in HsiSourceVals, sens \in SensVals,
          t1 \in NavTypeVals, t2 \in NavTypeVals,
          n1 \in Nav1Samples, n2 \in Nav2Samples, g \in GpsSamples :
          fs = [p \in Props |->
                  CASE p = "hsiSource"        -> src
                    [] p = "gpshsisens"       -> sens
                    [] p = "nav1type"         -> t1
                    [] p = "nav2type"         -> t2
                    [] p = "nav1crs"          -> n1[1]
                    [] p = "nav1dft"          -> n1[2]
                    [] p = "nav1fromto"       -> n1[3]
                    [] p = "nav1gsavailable"  -> n1[4]
                    [] p = "nav1gs"           -> n1[5]
                    [] p = "nav2crs"          -> n2[1]
                    [] p = "nav2dft"          -> n2[2]
                    [] p = "nav2fromto"       -> n2[3]
                    [] p = "nav2gsavailable"  -> n2[4]
                    [] p = "nav2gs"           -> n2[5]
                    [] p = "gpscrs"           -> g[1]
                    [] p = "gpsdft"           -> g[2]
                    [] p = "gpsfromto"        -> g[3]
                    [] p = "gpsgsavailable"   -> g[4]
                    [] p = "gpsvnavavailable" -> g[5]
                    [] p = "gpsgs"            -> g[6]
                    [] OTHER                  -> Default(p)]
    /\ added = {}
    /\ nav = NoAttrs
    /\ canvas = << >>
    /\ qpActive = FALSE
    /\ handler = ""
    /\ painted = << >>
    /\ logged = 0
    /\ raised = ""
    /\ qpEnds = 0
    /\ pass = NoPass

NextDerive == DeriveSettings

SpecDerive == InitDerive /\ [][NextDerive]_vars

(***************************************************************************)
(* One paint pass of a powered-on widget as a function of the stored       *)
(* parameters.  The inputs are drawn from the sets below.  The lateral and *)
(* glideslope samples go to the nav1 and to the gps fields alike, so that  *)
(* they reach the drawing whichever of the two sources is selected.        *)
(***************************************************************************)
MagHeadingVals == {0, Num(47), Num(365), Num(-355)}

HeadingBugVals == {0, Num(90), Num(450)}

CourseVals == {Num(270), Num(630), Num(-90)}

WindDirectionVals == {0, Num(370)}

DeviationVals == {0, 50, 240, 250, Num(-3), Num(1000)}

FromToVals == {0, Num(1), Num(2)}

\* <<gsavailable, gs>>
GlideslopeSamples ==
    { <<0, 125>>, <<Num(1), 0>>, <<Num(1), 125>>, <<Num(1), Num(5)>>,
      <<Num(1), Num(-25)>> }

TurnRateVals ==
    {0, Num(16), Num(32), Num(73), Num(100), Num(-73), Num(-200)}

KiasVals == {0, Num(10), Num(100), Num(102), Num(110), Num(130)}

VneVals == {Num(127), Num(140)}

\* <<pitchAngle, rollAngle>>
AttitudeSamples == { <<0, 0>>, <<Num(10), Num(30)>>, <<Num(-20), Num(-45)>> }

PaintSourceVals == {0, Num(2)}

\* The stored parameters with the lateral and glideslope samples in place.
NavInputs(f, src, crs, dft, fromto, g) ==
    [p \in Props |->
        CASE p = "avionicson"                    -> Num(1)
          [] p = "hsiSource"                     -> src
          [] p \in {"nav1type", "gpstype"}       -> Num(3)
          [] p \in {"nav1crs", "gpscrs"}         -> crs
          [] p \in {"nav1dft", "gpsdft"}         -> dft
          [] p \in {"nav1fromto", "gpsfromto"}   -> fromto
          [] p \in {"nav1gsavailable", "gpsgsavailable"} -> g[1]
          [] p = "gpsvnavavailable"              -> Num(-1000)
          [] p \in {"nav1gs", "gpsgs"}           -> g[2]
          [] OTHER                               -> f[p]]

InitHSI ==
    /\ widget = "HSI"
    /\ \E mag \in MagHeadingVals, bug \in HeadingBugVals, crs \in CourseVals,
          wind \in WindDirectionVals, dft \in DeviationVals,
          fromto \in FromToVals, g \in GlideslopeSamples,
          src \in PaintSourceVals :
          fs = NavInputs([Defaults EXCEPT !["magHeading"] = mag,
                                          !["headingBug"] = bug,
                                          !["windDirection"] = wind],
                         src, crs, dft, fromto, g)

InitAI ==
    /\ widget = "AI"
    /\ \E turn \in TurnRateVals, kias \in KiasVals, vne \in VneVals,
          att \in AttitudeSamples, g \in GlideslopeSamples,
          src \in PaintSourceVals :
          fs = NavInputs([Defaults EXCEPT !["turnRate"] = turn,
                                          !["kias"] = kias,
                                          !["vne"] = vne,
                                          !["pitchAngle"] = att[1],
                                          !["rollAngle"] = att[2]],
                         src, Num(270), 50, Num(1), g)

\* Either widget powered off, a glideslope and a from/to flag being received.
InitOff ==
    /\ widget \in {"HSI", "AI"}
    /\ \E src \in PaintSourceVals, g \in GlideslopeSamples :
          fs = [NavInputs(Defaults, src, Num(270), 50, Num(1), g)
                    EXCEPT !["avionicson"] = 0]

InitPaint ==
    /\ InitHSI \/ InitAI \/ InitOff
    /\ added = {}
    /\ nav = NoAttrs
    /\ canvas = << >>
    /\ qpActive = FALSE
    /\ handler = ""
    /\ painted = << >>
    /\ logged = 0
    /\ raised = ""
    /\ qpEnds = 0
    /\ pass = NoPass

NextPaint == PaintEvent

SpecPaint == InitPaint /\ [][NextPaint]_vars

(***************************************************************************)
(* Properties of derive_settings, checked under SpecDerive.                *)
(***************************************************************************)
NavFields ==
    {"cdi_source", "gps_cdi_annunciator", "nav_color", "nav_dft",
     "nav_from_to", "nav_crs", "gs_available", "gs_dev"}

\* derive_settings has run on the stored parameters.
Derived == handler = "derive_settings"

Selected == int(fs["hsiSource"])

\* The lateral and glideslope fields of the derived attributes come from
\* the stored fields named crs, dft, fromto and gs.
TakenFrom(crs, dft, fromto, gs) ==
    /\ nav["nav_crs"] = fs[crs]
    /\ nav["nav_dft"] = fs[dft]
    /\ nav["nav_from_to"] = fs[fromto]
    /\ nav["gs_dev"] = fs[gs]

\* C1: after derive_settings the label, colour, course, deviation, from/to
\* flag and glideslope deviation are those of the source int(hsiSource)
\* selects: 2 gives "GPS", magenta and the gps fields; 1 gives the nav2 type
\* string, green and the nav2 fields; every other value gives the nav1 type
\* string, green and the nav1 fields (hsiSource 0, nav1type 3, nav1crs 270,
\* nav1dft 0.5 give "VOR1", green, 270, 0.5).
C1_SourceSelection ==
    Derived =>
        /\ Selected = 2 =>
              /\ nav["cdi_source"] = "GPS"
              /\ nav["nav_color"] = "magenta"
              /\ TakenFrom("gpscrs", "gpsdft", "gpsfromto", "gpsgs")
        /\ Selected = 1 =>
              /\ nav["cdi_source"] = format(getNavTypeString(fs["nav2type"], "2"))
              /\ nav["nav_color"] = "green"
              /\ TakenFrom("nav2crs", "nav2dft", "nav2fromto", "nav2gs")
        /\ Selected \notin {1, 2} =>
              /\ nav["cdi_source"] = format(getNavTypeString(fs["nav1type"], "1"))
              /\ nav["nav_color"] = "green"
              /\ TakenFrom("nav1crs", "nav1dft", "nav1fromto", "nav1gs")
        /\ ( /\ fs["hsiSource"] = 0
             /\ fs["nav1type"] = Num(3)
             /\ fs["nav1crs"] = Num(270)
             /\ fs["nav1dft"] = 50 ) =>
              /\ nav["cdi_source"] = "VOR1"
              /\ nav["nav_color"] = "green"
              /\ nav["nav_crs"] = Num(270)
              /\ nav["nav_dft"] = 50

C1_Witness ==
    /\ Derived
    /\ fs["hsiSource"] = 0
    /\ fs["nav1type"] = Num(3)
    /\ fs["nav1crs"] = Num(270)
    /\ fs["nav1dft"] = 50
    /\ fs["nav2crs"] = Num(45)
    /\ fs["gpscrs"] = Num(359)
    /\ nav["cdi_source"] = "VOR1"

C3_Annunciator ==
    Derived =>
        LET sensi == round1(fs["gpshsisens"])
            ann   == nav["gps_cdi_annunciator"]
        IN  /\ (Selected = 2 /\ sensi <= 10) => ann = "LNAV"
            /\ (Selected = 2 /\ sensi = 40) => ann = "TERM"
            /\ (Selected = 2 /\ sensi = 80) => ann = "ENR"
            /\ (Selected = 2 /\ sensi > 10 /\ sensi \notin {40, 80}) => ann = ""
            /\ (Selected = 2 /\ fs["gpshsisens"] = 5) => ann = "LNAV"
            /\ (Selected = 2 /\ fs["gpshsisens"] = 25) => ann = ""
            /\ Selected # 2 => ann = ""

C3_Witness ==
    /\ Derived
    /\ fs["hsiSource"] = 250
    /\ fs["gpshsisens"] = 44
    /\ nav["gps_cdi_annunciator"] = "TERM"

\* C4: with the GPS source selected and gpshsisens = 0.12, derive_settings
\* sets the annunciator to "DEPT".
C4_Dept ==
    (Derived /\ Selected = 2 /\ fs["gpshsisens"] = 12) =>
        nav["gps_cdi_annunciator"] = "DEPT"

\* C5: getNavTypeString(navType, navIndex) returns "" when int(navType) is
\* 0, "VOR" + navIndex when it is 3 and "LOC" + navIndex when it is 4 or
\* more; seen in the label of the selected nav1 or nav2 source.
TypeLabel(type, index) ==
    /\ int(fs[type]) = 0 => nav["cdi_source"] = ""
    /\ int(fs[type]) = 3 => nav["cdi_source"] = "VOR" \o index
    /\ int(fs[type]) >= 4 => nav["cdi_source"] = "LOC" \o index
    /\ fs[type] = Num(7) => nav["cdi_source"] = "LOC" \o index

C5_NavTypeString ==
    Derived =>
        /\ Selected = 1 => TypeLabel("nav2type", "2")
        /\ Selected \notin {1, 2} => TypeLabel("nav1type", "1")
        /\ (Selected = 1 /\ fs["nav2type"] = Num(4)) => nav["cdi_source"] = "LOC2"
        /\ (Selected = 0 /\ fs["nav1type"] = Num(3)) => nav["cdi_source"] = "VOR1"

C5_Witness ==
    /\ Derived
    /\ Selected = 1
    /\ fs["nav2type"] = Num(4)
    /\ fs["nav1type"] = Num(3)
    /\ nav["cdi_source"] = "LOC2"

\* C6: for a nav type code that is none of 0, 3 or >= 4 on the selected
\* nav1 or nav2 source, the failure is logged, nothing is raised and the
\* source label cdi_source is the empty string.
Undecodable(type) == int(fs[type]) \notin {0, 3} /\ int(fs[type]) < 4

C6_DecodeFailureEmpty ==
    ( /\ Derived
      /\ \/ Selected = 1 /\ Undecodable("nav2type")
         \/ Selected \notin {1, 2} /\ Undecodable("nav1type") ) =>
        /\ logged >= 1
        /\ raised = ""
        /\ nav["cdi_source"] = ""

\* C7: with the GPS source selected gs_available is true exactly when
\* gpsvnavavailable differs from -1000 or gpsgsavailable is set; with nav1
\* or nav2 selected it is that source's own gsavailable flag.
C7_GlideslopeAvailable ==
    Derived =>
        /\ Selected = 2 =>
              ( nav["gs_available"] # 0
                <=> ( fs["gpsvnavavailable"] # Num(-1000)
                      \/ fs["gpsgsavailable"] # 0 ) )
        /\ Selected = 1 => nav["gs_available"] = fs["nav2gsavailable"]
        /\ Selected \notin {1, 2} => nav["gs_available"] = fs["nav1gsavailable"]

C7_Witness ==
    /\ Derived
    /\ Selected = 2
    /\ fs["gpsvnavavailable"] = Num(-1000)
    /\ fs["gpsgsavailable"] = 0
    /\ fs["nav1gsavailable"] = Num(1)
    /\ nav["gs_available"] = 0

(***************************************************************************)
(* Properties of the handlers, checked under Spec.                         *)
(***************************************************************************)
\* The last handler ran a paint pass, and its last pass saw _avionicson = 0.
PaintedOff ==
    /\ Len(painted) > 0
    /\ painted[Len(painted)]["avionicson"] = 0

\* C8: when avionicson is 0 a paint pass of either renderer issues only the
\* black rectangle over the whole canvas and the two white diagonals, then
\* ends the painter; the output is the same whatever the other parameters.
C8_PoweredOff ==
    PaintedOff =>
        /\ canvas =
              << Draw("drawRect", "background", "black", "black",
                      <<0, 0, 480, 360>>, ""),
                 Draw("drawLine", "off", "white", "", <<0, 0, 480, 360>>, ""),
                 Draw("drawLine", "off", "white", "", <<0, 360, 480, 0>>, "") >>
        /\ qpActive = FALSE

C8_Witness ==
    /\ PaintedOff
    /\ widget = "HSI"
    /\ handler = "setter"
    /\ fs["hsiSource"] = Num(2)
    /\ fs["nav1type"] = Num(1)
    /\ Len(canvas) = 3

\* C9: drefHandler applied to a batch requests exactly one repaint for the
\* whole batch, and that repaint runs after every entry has been applied.
C9_OneRepaintPerBatch ==
    handler = "drefHandler" =>
        /\ Len(painted) = 1
        /\ painted[1] = fs

\* C10: a malformed entry (too few elements, a non-string identifier) or an
\* entry whose identifier names no stored parameter changes no attribute of
\* the widget, no exception leaves drefHandler and the repaint is still
\* requested.
C10_BadEntriesSkipped ==
    handler = "drefHandler" =>
        /\ raised = ""
        /\ added = {}
        /\ Len(painted) >= 1

(***************************************************************************)
(* Properties of one paint pass of a powered-on widget, checked under      *)
(* SpecPaint.                                                              *)
(***************************************************************************)
PaintedOn(w) ==
    /\ handler = "paintEvent"
    /\ widget = w
    /\ fs["avionicson"] # 0

\* The primitives of canvas c that draw the part.
Parts(c, part) == SelectSeq(c, LAMBDA d : d.part = part)

\* The stored parameter holding the course of the selected source.
CourseField ==
    IF int(fs["hsiSource"]) = 2 THEN "gpscrs"
    ELSE IF int(fs["hsiSource"]) = 1 THEN "nav2crs" ELSE "nav1crs"

AngleFields == {"magHeading", "headingBug", "windDirection", CourseField}

AngleReadouts ==
    {"heading_readout", "bug_readout", "wind_direction", "crs_readout"}

ThreeDigitDegrees == { ZeroPad(k, 3) \o "deg" : k \in 0..359 }

\* C14: an angle a + 360k of magnetic heading, heading bug, selected course
\* or wind direction produces the same frame as a, and every angle readout
\* shows three digits in 000..359.
C14_AnglesNormalised ==
    PaintedOn("HSI") =>
        /\ \A p \in AngleFields : \A k \in {-1, 1} :
              paintEvent("HSI", [fs EXCEPT ![p] = @ + k * Num(360)],
                         nav).canvas = canvas
        /\ \A i \in DOMAIN canvas :
              canvas[i].part \in AngleReadouts
                  => canvas[i].txt \in ThreeDigitDegrees

\* The deflection d (hundredths of a dot) clamped to [-2.4, 2.4].
ClampedDeflection(d) == IF d > 240 THEN 240 ELSE IF d < -240 THEN -240 ELSE d

\* The offset of the deflection bar from the centre line of the CDI: the
\* middle of its two long edges.
BarOffset(bar) == (bar.geom[2] + bar.geom[4]) \div 2

\* C15: with a from/to indication, the deflection bar is drawn at
\* clamp(d, -2.4, 2.4) / 2 * 75 from the CDI centre line: the clamped value
\* is d when d is within the bound and the bound otherwise, the offset stays
\* within [-90, 90], and d = 0.5 gives 18.75.
C15_DeflectionClamped ==
    (PaintedOn("HSI") /\ int(nav["nav_from_to"]) # 0) =>
        /\ Len(Parts(canvas, "cdi_bar")) = 1
        /\ LET offset == BarOffset(Parts(canvas, "cdi_bar")[1])
               d      == nav["nav_dft"]
           IN  /\ offset * 200 = ClampedDeflection(d) * Px(75)
               /\ ClampedDeflection(d) \in -240..240
               /\ (d \in -240..240 => offset * 200 = d * Px(75))
               /\ offset >= Px(-90)
               /\ offset <= Px(90)
               /\ (d = 50 => offset * 100 = Px(1875))

C15_Witness ==
    /\ PaintedOn("HSI")
    /\ int(nav["nav_from_to"]) # 0
    /\ nav["nav_dft"] = Num(1000)
    /\ Len(Parts(canvas, "cdi_bar")) = 1
    /\ BarOffset(Parts(canvas, "cdi_bar")[1]) = Px(90)

\* C16: with the glideslope available, the diamond is drawn within the
\* glideslope ladder, between its top and bottom edges, whatever the
\* deviation.
C16_DiamondWithinLadder ==
    (handler = "paintEvent" /\ fs["avionicson"] # 0
     /\ nav["gs_available"] # 0) =>
        /\ Len(Parts(canvas, "gs_diamond")) = 1
        /\ Len(Parts(canvas, "gs_ladder")) = 1
        /\ LET diamond == Parts(canvas, "gs_diamond")[1]
               ladder  == Parts(canvas, "gs_ladder")[1]
               y       == diamond.xf[Len(diamond.xf)].y
           IN  /\ y >= ladder.geom[2]
               /\ y <= ladder.geom[2] + ladder.geom[4]

\* C17 as stated: the turn-rate bar is at most 62 pixels wide on either side
\* of the centre, and exactly 62 wide when the turn rate is at or beyond the
\* clamp limit of 73.
C17_TurnRateWithinHalfWidth ==
    PaintedOn("AI") =>
        /\ Len(Parts(canvas, "turn_rate")) = 1
        /\ LET w == Parts(canvas, "turn_rate")[1].geom[3]
           IN  /\ Abs(w) <= Px(62)
               /\ (Abs(fs["turnRate"]) >= Num(73) => Abs(w) = Px(62))

\* The turn rate r (hundredths) clamped to [-73, 73].
ClampedTurnRate(r) ==
    IF r > Num(73) THEN Num(73) ELSE IF r < Num(-73) THEN Num(-73) ELSE r

\* C17, amended: the width of the turn-rate bar is the turn rate clamped to
\* [-73, 73], times 62 / 32: 62 pixels at a turn rate of 32, and 73 / 32 * 62
\* (141.4375) pixels, its largest, from the clamp limit on.
C17_TurnRateScaled ==
    PaintedOn("AI") =>
        /\ Len(Parts(canvas, "turn_rate")) = 1
        /\ LET w == Parts(canvas, "turn_rate")[1].geom[3]
               r == fs["turnRate"]
           IN  /\ w * 32 = ClampedTurnRate(r) * (Px(62) \div 100)
               /\ Abs(w) * 32 <= 73 * Px(62)
               /\ (Abs(r) = Num(32) => Abs(w) = Px(62))
               /\ (Abs(r) >= Num(73) => Abs(w) * 32 = 73 * Px(62))

C17_Witness ==
    /\ PaintedOn("AI")
    /\ fs["turnRate"] = Num(100)
    /\ Len(Parts(canvas, "turn_rate")) = 1
    /\ Parts(canvas, "turn_rate")[1].geom[3] * 32 = 73 * Px(62)

\* C18 as stated: with the from/to flag 1 (taken as "from") the triangle is
\* drawn rotated by 180 degrees relative to the CDI arrow, with the other
\* indication unrotated, and the rotation after the triangle is the one
\* before it (the deflection circles follow under the arrow's transform
\* turned by 90).
C18_FlippedWhenOne ==
    (PaintedOn("HSI") /\ int(nav["nav_from_to"]) # 0) =>
        /\ Len(Parts(canvas, "from_to")) = 1
        /\ LET arrow    == Parts(canvas, "cdi_arrow")[1]
               triangle == Parts(canvas, "from_to")[1]
               circle   == Parts(canvas, "cdi_circle")[1]
           IN  /\ int(nav["nav_from_to"]) = 1
                    => triangle.xf = rotate(arrow.xf, Num(180))
               /\ int(nav["nav_from_to"]) # 1 => triangle.xf = arrow.xf
               /\ circle.xf = rotate(arrow.xf, Num(90))

\* C18, amended: the triangle is drawn rotated by 180 degrees relative to
\* the CDI arrow when int(nav_from_to) is 2 and unrotated for every other
\* non-zero value (1 included); in both cases the rotation in force after
\* the triangle is the rotation in force before it.
C18_FlippedWhenTwo ==
    (PaintedOn("HSI") /\ int(nav["nav_from_to"]) # 0) =>
        /\ Len(Parts(canvas, "from_to")) = 1
        /\ LET arrow    == Parts(canvas, "cdi_arrow")[1]
               triangle == Parts(canvas, "from_to")[1]
               circle   == Parts(canvas, "cdi_circle")[1]
           IN  /\ int(nav["nav_from_to"]) = 2
                    => /\ triangle.xf = rotate(arrow.xf, Num(180))
                       /\ rotation(triangle.xf)
                            = (rotation(arrow.xf) + Num(180)) % Num(360)
               /\ int(nav["nav_from_to"]) # 2 => triangle.xf = arrow.xf
               /\ circle.xf = rotate(arrow.xf, Num(90))

C18_Witness ==
    /\ PaintedOn("HSI")
    /\ int(nav["nav_from_to"]) = 2
    /\ Len(Parts(canvas, "from_to")) = 1
    /\ Parts(canvas, "from_to")[1].xf # Parts(canvas, "cdi_arrow")[1].xf
    /\ Parts(canvas, "cdi_circle")[1].xf
         = rotate(Parts(canvas, "cdi_arrow")[1].xf, Num(90))

GlideslopeParts ==
    {"gs_source", "gs_source_box", "gs_ladder", "gs_center", "gs_circle",
     "gs_diamond"}

\* What draw_glideslope drew on canvas c.
Glideslope(c) == SelectSeq(c, LAMBDA d : d.part \in GlideslopeParts)

\* The centre and the height each widget passes to draw_glideslope.
GsCentre(w) == IF w = "HSI" THEN HSI_CENTER ELSE G5_CENTER_Y

GsHeight(w) == IF w = "HSI" THEN 192 ELSE 172

\* The heights of the four reference circles of canvas c above (negative)
\* or below the centre, in pixels.
CircleOffsets(c, w) ==
    [i \in 1..Len(Parts(c, "gs_circle")) |->
        Parts(c, "gs_circle")[i].geom[2] - Px(GsCentre(w))]

\* The height of the diamond of canvas c below the centre.
DiamondOffset(c, w) ==
    LET diamond == Parts(c, "gs_diamond")[1]
    IN  diamond.xf[Len(diamond.xf)].y - Px(GsCentre(w))

\* C19: for the same stored parameters draw_glideslope draws nothing on
\* either widget and leaves the transform alone when gs_available is 0;
\* otherwise it draws on both widgets four circles at -70, -35, +35, +70
\* from the centre and the diamond at centre + gs_dev / 2.5 * height / 2, the
\* same fraction of the half height on the AI (172) and on the HSI (192).
C19_SharedGlideslope ==
    (handler = "paintEvent" /\ fs["avionicson"] # 0) =>
        LET other == IF widget = "HSI" THEN "AI" ELSE "HSI"
            there == paintEvent(other, fs, nav).canvas
        IN  IF nav["gs_available"] = 0
            THEN /\ Glideslope(canvas) = << >>
                 /\ Glideslope(there) = << >>
                 /\ widget = "HSI"
                      => Parts(canvas, "crs_box")[1].xf = Identity
            ELSE /\ CircleOffsets(canvas, widget)
                      = <<Px(-70), Px(-35), Px(35), Px(70)>>
                 /\ CircleOffsets(there, other)
                      = <<Px(-70), Px(-35), Px(35), Px(70)>>
                 /\ Len(Parts(canvas, "gs_diamond")) = 1
                 /\ Len(Parts(there, "gs_diamond")) = 1
                 /\ DiamondOffset(canvas, widget) * 5
                      = nav["gs_dev"] * (Px(GsHeight(widget)) \div 100)
                 /\ DiamondOffset(canvas, widget) * GsHeight(other)
                      = DiamondOffset(there, other) * GsHeight(widget)

C19_Witness ==
    /\ PaintedOn("AI")
    /\ nav["gs_available"] # 0
    /\ nav["gs_dev"] = 125
    /\ Len(Parts(canvas, "gs_circle")) = 4
    /\ DiamondOffset(canvas, "AI") = Px(43)

\* C20: the red band of the speed tape is drawn exactly when kias + 25 > vne;
\* it runs from the top of the tape to the height of vne on the tape,
\* (1 - 2 * (vne - kias) / 50) * G5_CENTER_Y, which is 201.6 for vne = 127
\* and kias = 130, so that the graduation marks it reaches are those of the
\* speeds from vne up (a labelled mark follows its line on the canvas).
C20_RedBand ==
    PaintedOn("AI") =>
        /\ Len(Parts(canvas, "band_vne"))
             = (IF fs["kias"] + Num(25) > fs["vne"] THEN 1 ELSE 0)
        /\ \A i \in DOMAIN Parts(canvas, "band_vne") :
              LET band   == Parts(canvas, "band_vne")[i].geom
                  bottom == band[2] + band[4]
              IN  /\ band[2] = 0
                  /\ bottom = Px(G5_CENTER_Y)
                                - (fs["vne"] - fs["kias"])
                                  * (Px(2 * G5_CENTER_Y) \div Num(50))
                  /\ (fs["vne"] = Num(127) /\ fs["kias"] = Num(130))
                        => bottom * 10 = Px(2016)
                  /\ \A j \in DOMAIN canvas :
                     \A speed \in 0..int(fs["kias"] + Num(25)) :
                        (canvas[j].part = "speed_label"
                         /\ canvas[j].txt = ToString(speed))
                            => /\ canvas[j - 1].part = "speed_tick"
                               /\ (canvas[j - 1].geom[2] <= bottom)
                                     <=> (Num(speed) >= fs["vne"])

C20_Witness ==
    /\ PaintedOn("AI")
    /\ fs["vne"] = Num(127)
    /\ fs["kias"] = Num(130)
    /\ Len(Parts(canvas, "band_vne")) = 1
    /\ Parts(canvas, "band_vne")[1].geom[4] * 10 = Px(2016)
    /\ \E j \in DOMAIN canvas :
          /\ canvas[j].part = "speed_label"
          /\ canvas[j].txt = "150"
          /\ canvas[j - 1].geom[2] < Parts(canvas, "band_vne")[1].geom[4]

(***************************************************************************)
(* Properties of the paint passes under extreme values, checked under      *)
(* SpecExtreme.                                                            *)
(***************************************************************************)

\* C11: after any sequence of setters and drefHandler batches carrying
\* numeric values, the paint pass run last has completed: no exception has
\* left paintEvent, and the pass has called qp.end() exactly once, which
\* leaves the painter inactive.
C11_PaintTotal ==
    handler # "" =>
        /\ raised = ""
        /\ qpEnds = 1
        /\ qpActive = FALSE

(***************************************************************************)
(* Properties of the generated setters, checked under SpecSetters.         *)
(***************************************************************************)

\* C12: after construction every parameter holds its listed default
\* (alt_setting 29.92, vs0 23, avionicson 0, ...); and a step that is the
\* call p(v) of a generated setter leaves v in the stored value of p, every
\* other stored value as it was, and runs exactly one repaint, which sees the
\* new values.
C12_SetterFrame ==
    /\ fs = [q \in Props |-> Default(q)]
    /\ fs["alt_setting"] = 2992
    /\ fs["vs0"] = Num(23)
    /\ fs["avionicson"] = 0
    /\ [][\A p \in Props : \A v \in SetterInputs(p) :
            (fs' = setter(fs, p, v).fs /\ Setter(p, v))
                => /\ fs'[p] = v
                   /\ \A q \in Props \ {p} : fs'[q] = fs[q]
                   /\ Len(painted') = 1
                   /\ painted'[1] = fs'
                   /\ handler' = "setter"]_vars

C12_Witness ==
    /\ handler = "setter"
    /\ fs["avionicson"] = Num(1)
    /\ \A q \in Props \ {"avionicson"} : fs[q] = Default(q)
    /\ Len(painted) = 1
    /\ painted[1] = fs
    /\ Len(canvas) > 3

(***************************************************************************)
(* Properties of concurrent updates, checked under SpecThreads.            *)
(***************************************************************************)

\* C13: with an updater thread calling the setters while the rendering
\* thread paints, every paint pass reads the same stored parameters at each
\* of its steps (none is changed while the pass is in progress), and no
\* paint pass is begun while another is in progress.
C13_NoTornRead ==
    /\ \A t \in Threads : \A i, j \in DOMAIN pass[t].reads :
          pass[t].reads[i] = pass[t].reads[j]
    /\ ~(pass["gui"].pc = "derived" /\ pass["updater"].pc = "derived")

(***************************************************************************)
(* Properties of the derived attributes across paint passes, checked under *)
(* SpecSwitch.                                                             *)
(***************************************************************************)

\* C21: after any sequence of updates and paints, every derived attribute
\* is what derive_settings yields from the stored parameters of the last
\* paint pass alone (none existing before it): when the source is not the
\* GPS, the colour is green and the annunciator empty although the pass
\* before was painted with the GPS selected.
C21_FreshBundle ==
    /\ Len(painted) = 1
    /\ painted[1] = fs
    /\ nav = derive_settings(fs, NoAttrs).nav
    /\ int(fs["hsiSource"]) # 2
          => /\ nav["nav_color"] = "green"
             /\ nav["gps_cdi_annunciator"] = ""
             /\ nav["cdi_source"] # "GPS"
             /\ nav["nav_crs"] # fs["gpscrs"]
             /\ nav["gs_dev"] # fs["gpsgs"]

C21_Witness ==
    /\ handler = "setter"
    /\ int(fs["hsiSource"]) = 0
    /\ fs["gpshsisens"] = 0
    /\ nav["nav_color"] = "green"
    /\ nav["gps_cdi_annunciator"] = ""
    /\ nav["nav_crs"] = Num(270)

(***************************************************************************)
(* Properties of the painter transform during one paint pass of the HSI,   *)
(* checked under SpecPaint.  Centre is the transform after the translate   *)
(* to the centre of the rose, Turned(a) that transform followed by a       *)
(* rotation of a hundredths of a degree.                                   *)
(***************************************************************************)
Centre == << XfOp("translate", 0, Px(G5_CENTER_X), Px(HSI_CENTER)) >>

Turned(a) ==
    IF a % 36000 = 0 THEN Centre
    ELSE Append(Centre, XfOp("rotate", a % 36000, 0, 0))

\* C22: the rose loop draws 72 ticks, the tick of turn i under the rotation
\* -magHeading + 5 * (i - 1) about the centre and nothing else (so each
\* label's translate, rotate, rotate back, translate back has restored the
\* transform in force before it); each of the 12 labels is drawn under a net
\* rotation of 0; after the loop the heading bug, drawn after
\* rotate(180 + headingBug), is under -magHeading + 180 + headingBug about
\* the centre, so the loop has left -magHeading and no translation.
C22_RoseUpright ==
    PaintedOn("HSI") =>
        LET ticks  == Parts(canvas, "rose_tick")
            labels == Parts(canvas, "rose_label")
            bug    == Parts(canvas, "heading_bug")
        IN  /\ Len(ticks) = 72
            /\ \A i \in 1..Len(ticks) :
                  ticks[i].xf = Turned(-fs["magHeading"] + Num(5 * (i - 1)))
            /\ Len(labels) = 12
            /\ \A j \in 1..Len(labels) :
                  /\ rotation(labels[j].xf) = 0
                  /\ labels[j].txt = RoseText(30 * (j - 1))
            /\ Len(bug) = 1
            /\ bug[1].xf =
                  Turned(-fs["magHeading"] + Num(180) + fs["headingBug"])

\* A heading that is no multiple of 5: every label is drawn under two
\* rotations with the translate to the text radius between them.
C22_Witness ==
    /\ PaintedOn("HSI")
    /\ fs["magHeading"] = Num(47)
    /\ \A j \in 1..Len(Parts(canvas, "rose_label")) :
          Len(Parts(canvas, "rose_label")[j].xf) = 4
    /\ Len(Parts(canvas, "rose_label")) = 12

\* C23: the CDI arrow and its tail are drawn under the rotation
\* -magHeading + nav_crs + 270 (modulo 360) about the centre, whatever the
\* heading bug is: the 180 + headingBug of the bug and the
\* 90 - headingBug + nav_crs of the CDI add up to 270 + nav_crs.
C23_NeedleRotation ==
    PaintedOn("HSI") =>
        LET needle == Parts(canvas, "cdi_arrow") \o Parts(canvas, "cdi_tail")
        IN  /\ Len(needle) = 2
            /\ \A i \in 1..Len(needle) :
                  /\ needle[i].xf =
                        Turned(-fs["magHeading"] + nav["nav_crs"] + Num(270))
                  /\ rotation(needle[i].xf) =
                        (-fs["magHeading"] + fs[CourseField] + Num(270)) % 36000

C23_Witness ==
    /\ PaintedOn("HSI")
    /\ fs["headingBug"] = Num(90)
    /\ fs["magHeading"] = Num(47)
    /\ nav["nav_crs"] = Num(-90)
    /\ rotation(Parts(canvas, "cdi_arrow")[1].xf) = Num(133)
    /\ rotation(Parts(canvas, "heading_bug")[1].xf) = Num(223)

(***************************************************************************)
(* The parts both renderers draw in coordinates relative to a transform    *)
(* they have set: on the HSI what lies between the translate to the centre *)
(* and the resetTransform after the CDI, the wind arrow and the ground     *)
(* track; on the attitude indicator what lies between the translate to the *)
(* centre and the resetTransform after the roll pointer; the diamond of    *)
(* the glideslope.  Every other part is drawn in canvas coordinates.       *)
(***************************************************************************)
RelativeParts ==
    {"hsi_circle", "hsi_marker", "rose_tick", "rose_label", "heading_bug",
     "cdi_arrow", "cdi_tail", "cdi_bar", "from_to", "cdi_circle",
     "wind_arrow", "ground_track", "track_line",
     "ground", "pitch_line", "pitch_label", "roll_arc", "roll_marker",
     "roll_pointer", "gs_diamond"}

\* The transform in force at the qp.end() of the pass painted last.
EndTransform ==
    IF fs["avionicson"] = 0 THEN Identity
    ELSE IF widget = "HSI" THEN HSIPainter(fs, nav).xf
    ELSE AIPainter(fs, nav).xf

\* C24: after a paint pass of either widget, powered on or off, every
\* primitive drawn in canvas coordinates was drawn under the identity
\* transform (those of draw_glideslope and the one before and after it
\* included); the diamond of the glideslope is under the one translate of
\* draw_glideslope and nothing left over from before; the transform in force
\* at qp.end() is the identity.
C24_NoTransformLeak ==
    (handler = "paintEvent" /\ raised = "") =>
        /\ \A i \in 1..Len(canvas) :
              canvas[i].part \notin RelativeParts => canvas[i].xf = Identity
        /\ \A i \in 1..Len(canvas) :
              canvas[i].part = "gs_diamond" =>
                  /\ Len(canvas[i].xf) = 1
                  /\ canvas[i].xf[1].k = "translate"
                  /\ i > 1
                  /\ canvas[i - 1].xf = Identity
        /\ EndTransform = Identity

\* The HSI painted with the glideslope drawn, the from/to triangle flipped
\* and the course box following the glideslope.
C24_Witness ==
    /\ PaintedOn("HSI")
    /\ nav["gs_available"] # 0
    /\ int(nav["nav_from_to"]) = 2
    /\ fs["magHeading"] = Num(47)
    /\ Len(Parts(canvas, "gs_diamond")) = 1
    /\ Len(Parts(canvas, "crs_box")) = 1
    /\ Parts(canvas, "crs_box")[1].xf = Identity
    /\ canvas[Len(canvas)].xf = Identity

(***************************************************************************)
(* Properties of the speed bands of the attitude indicator, checked under  *)
(* SpecPaint.                                                              *)
(***************************************************************************)

\* C25: the white (flaps) band is drawn whenever kias + 25 > vs0, and when
\* drawn its lower edge (y + height of its rectangle) is at the tape
\* position of vs0, (1 - 2 * (vs0 - kias) / 50) * G5_CENTER_Y.
C25_FlapsBand ==
    PaintedOn("AI") =>
        LET band == Parts(canvas, "band_flaps")
        IN  /\ fs["kias"] + Num(25) > fs["vs0"] => Len(band) = 1
            /\ \A i \in 1..Len(band) :
                  band[i].geom[2] + band[i].geom[4] = bandHeight(fs["vs0"], fs)

(***************************************************************************)
(* Properties of the CDI of the powered-on HSI, checked under SpecPaint.   *)
(***************************************************************************)

\* C26: the deflection bar and the from/to triangle are both drawn, once,
\* when int(nav_from_to) of the selected source is not 0 and neither is
\* drawn when it is 0, whatever the deviation; the arrow, the tail bar and
\* the four deflection circles are drawn in every case.
C26_FlagGatesBar ==
    PaintedOn("HSI") =>
        LET drawn(part) == Len(Parts(canvas, part))
        IN  /\ int(nav["nav_from_to"]) # 0 =>
                  drawn("cdi_bar") = 1 /\ drawn("from_to") = 1
            /\ int(nav["nav_from_to"]) = 0 =>
                  drawn("cdi_bar") = 0 /\ drawn("from_to") = 0
            /\ drawn("cdi_arrow") = 1
            /\ drawn("cdi_tail") = 1
            /\ drawn("cdi_circle") = 4

\* No flag and a deviation far beyond the scale: needle and circles only.
C26_Witness ==
    /\ PaintedOn("HSI")
    /\ int(nav["nav_from_to"]) = 0
    /\ nav["nav_dft"] = Num(1000)
    /\ Len(Parts(canvas, "cdi_arrow")) = 1
    /\ Len(Parts(canvas, "cdi_circle")) = 4
    /\ Len(Parts(canvas, "cdi_bar")) = 0

==========================================================================
